---- MODULE Spec2Model ----
(***************************************************************************)
(* A model of FIAT's orthonormal expansion sets (FIAT/expansions.py): the  *)
(* dispatcher get_expansion_set / polynomial_dimension and the Line,       *)
(* Triangle and Tetrahedron expansion sets with their tabulate,            *)
(* tabulate_derivatives, tabulate_jet and get_num_members operations.      *)
(*                                                                         *)
(* The code is Python 2: "/" on integers is floor division (\div), and     *)
(* "print 'dasdas'" is a statement that writes a line to standard output.  *)
(*                                                                         *)
(* Floating-point values are modelled by their provenance: a slot of the   *)
(* results list is the expression tree of the assignments that built it,   *)
(* [op, at, args], and an array entry pairs a slot with the point it is    *)
(* evaluated at.  Python's None is the record NoneV.  A raised exception   *)
(* is a return record with status "raise" and the exception's class.       *)
(***************************************************************************)
EXTENDS Integers, Sequences, FiniteSets, TLC

\* Bounds of the model.
MaxDeg == 3     \* degrees n range over -MaxNeg..MaxDeg
MaxNeg == 3
MaxPts == 2     \* point sets hold 0..MaxPts points
MaxOrder == 1   \* jet orders range over 0..MaxOrder
MaxStdout == 1  \* lines kept of standard output
MaxShardDeg == 2     \* degrees of the sharded tabulations range over 0..MaxShardDeg
MaxComputations == 4 \* facet-support computations recorded
MaxBDFMDeg == 2      \* BDFM degrees k range over 1..MaxBDFMDeg
MaxPhiK == 1         \* PhiK holds 0..MaxPhiK polynomials

Degrees == (0 - MaxNeg)..MaxDeg
NPoints == 0..MaxPts
Orders == 0..MaxOrder

----------------------------------------------------------------------------
\* Python helpers.

\* range with hi included.
PyRangeInclusive(lo, hi) == [i \in 1..(hi - lo + 1) |-> lo + i - 1]

\* range(lo, hi) as a sequence.
PyRange(lo, hi) == [i \in 1..(hi - lo) |-> lo + i - 1]

RECURSIVE Flatten(_)
\* The concatenation of a sequence of sequences (nested for loops, in order).
Flatten(ss) == IF ss = <<>> THEN <<>> ELSE Head(ss) \o Flatten(Tail(ss))

\* k * [None]: a list of k slots, empty when k <= 0.
NoneV == [op |-> "None", at |-> <<>>, args |-> <<>>]
NoneList(k) == [i \in 1..k |-> NoneV]

\* Whether results[i] is a valid subscript of a list of length len
\* (Python accepts -len..len-1).
ValidIndex(i, len) == (0 - len) <= i /\ i < len

\* The 1-based position of Python subscript i in a list of length len.
Pos(i, len) == IF i >= 0 THEN i + 1 ELSE len + i + 1

\* max(a, b)
Max(a, b) == IF a >= b THEN a ELSE b

----------------------------------------------------------------------------
\* The results list of _tabulate is built by a straight sequence of
\* assignments results[tgt] = op(results[r] for r in reads); a Step is one of
\* them and RunSteps executes them in order, stopping at the first exception.

Step(tgt, op, at, reads) == [tgt |-> tgt, op |-> op, at |-> at, reads |-> reads]

\* One assignment.  Python evaluates the right-hand side first: a subscript
\* out of range raises IndexError, arithmetic on None raises TypeError; then
\* the subscripted store, which raises IndexError out of range.
ApplyStep(st, s) ==
    LET len == Len(st.res)
        badRead == \E k \in DOMAIN s.reads : ~ValidIndex(s.reads[k], len)
        noneRead == \E k \in DOMAIN s.reads : st.res[Pos(s.reads[k], len)] = NoneV
    IN  IF st.err # "ok" THEN st
        ELSE IF badRead THEN [st EXCEPT !.err = "IndexError"]
        ELSE IF noneRead THEN [st EXCEPT !.err = "TypeError"]
        ELSE IF ~ValidIndex(s.tgt, len) THEN [st EXCEPT !.err = "IndexError"]
        ELSE [st EXCEPT !.res[Pos(s.tgt, len)] =
                 [op |-> s.op, at |-> s.at,
                  args |-> [k \in DOMAIN s.reads |-> st.res[Pos(s.reads[k], len)]]]]

RECURSIVE RunRange(_, _, _, _)
\* The assignments steps[lo..hi] executed in order from st (split in halves
\* to keep the evaluation shallow).
RunRange(st, steps, lo, hi) ==
    IF lo > hi \/ st.err # "ok" THEN st
    ELSE IF lo = hi THEN ApplyStep(st, steps[lo])
    ELSE LET mid == (lo + hi) \div 2
             half == RunRange(st, steps, lo, mid)
         IN  IF half.err # "ok" THEN half
             ELSE RunRange(half, steps, mid + 1, hi)

RunSteps(st, steps) == RunRange(st, steps, 1, Len(steps))

----------------------------------------------------------------------------
\* TriangleExpansionSet

TriGetNumMembers(n) == ((n + 1) * (n + 2)) \div 2

\* TriIdx with p in place of q as the offset within a degree.
TriIdxOffsetP(p, q) == ((p + q) * (p + q + 1)) \div 2 + p

\* TriIdx without the offset q within a degree.
TriIdxNoQ(p, q) == ((p + q) * (p + q + 1)) \div 2

\* idx(p, q) of TriangleExpansionSet._tabulate
TriIdx(p, q) == ((p + q) * (p + q + 1)) \div 2 + q

\* The assignments of TriangleExpansionSet._tabulate(n, pts), in program order.
TriSteps(n) ==
    LET one  == << Step(0, "one", <<>>, <<>>) >>
        f1   == << Step(TriIdx(1, 0), "f1", <<>>, <<>>) >>
        prec == [i \in DOMAIN PyRange(1, n) |->
                   LET p == PyRange(1, n)[i]
                   IN  Step(TriIdx(p + 1, 0), "prec", <<p>>,
                            <<TriIdx(p, 0), TriIdx(p - 1, 0)>>)]
        q1   == [i \in DOMAIN PyRange(0, n) |->
                   LET p == PyRange(0, n)[i]
                   IN  Step(TriIdx(p, 1), "q1", <<p>>, <<TriIdx(p, 0)>>)]
        qrec == Flatten([i \in DOMAIN PyRange(0, n - 1) |->
                   LET p == PyRange(0, n - 1)[i]
                   IN  [k \in DOMAIN PyRange(1, n - p) |->
                          LET q == PyRange(1, n - p)[k]
                          IN  Step(TriIdx(p, q + 1), "qrec", <<p, q>>,
                                   <<TriIdx(p, q), TriIdx(p, q - 1)>>)]])
        norm == Flatten([i \in DOMAIN PyRange(0, n + 1) |->
                   LET p == PyRange(0, n + 1)[i]
                   IN  [k \in DOMAIN PyRange(0, n - p + 1) |->
                          LET q == PyRange(0, n - p + 1)[k]
                          IN  Step(TriIdx(p, q), "norm", <<p, q>>,
                                   <<TriIdx(p, q)>>)]])
    IN  IF n = 0 THEN one ELSE one \o f1 \o prec \o q1 \o qrec \o norm

\* TriTabulateList with the list allocated without the division by 2.
TriTabulateListNoHalf(n) ==
    RunSteps([res |-> NoneList((n + 1) * (n + 2)), err |-> "ok"], TriSteps(n))

\* TriangleExpansionSet._tabulate: the final results list, or the exception.
TriTabulateList(n) ==
    RunSteps([res |-> NoneList(((n + 1) * (n + 2)) \div 2), err |-> "ok"],
             TriSteps(n))

----------------------------------------------------------------------------
\* TetrahedronExpansionSet

TetGetNumMembers(n) == ((n + 1) * (n + 2) * (n + 3)) \div 6

\* TetIdx without the final offset r.
TetIdxNoR(p, q, r) ==
    ((p + q + r) * (p + q + r + 1) * (p + q + r + 2)) \div 6
        + ((q + r) * (q + r + 1)) \div 2

\* idx(p, q, r) of TetrahedronExpansionSet._tabulate
TetIdx(p, q, r) ==
    ((p + q + r) * (p + q + r + 1) * (p + q + r + 2)) \div 6
        + ((q + r) * (q + r + 1)) \div 2 + r

\* The assignments of TetrahedronExpansionSet._tabulate(n, pts), in program
\* order.
TetSteps(n) ==
    LET one  == << Step(0, "one", <<>>, <<>>) >>
        f1   == << Step(TetIdx(1, 0, 0), "factor1", <<>>, <<>>) >>
        prec == [i \in DOMAIN PyRange(1, n) |->
                   LET p == PyRange(1, n)[i]
                   IN  Step(TetIdx(p + 1, 0, 0), "prec", <<p>>,
                            <<TetIdx(p, 0, 0), TetIdx(p - 1, 0, 0)>>)]
        q1   == [i \in DOMAIN PyRange(0, n) |->
                   LET p == PyRange(0, n)[i]
                   IN  Step(TetIdx(p, 1, 0), "q1", <<p>>, <<TetIdx(p, 0, 0)>>)]
        qrec == Flatten([i \in DOMAIN PyRange(0, n - 1) |->
                   LET p == PyRange(0, n - 1)[i]
                   IN  [k \in DOMAIN PyRange(1, n - p) |->
                          LET q == PyRange(1, n - p)[k]
                          IN  Step(TetIdx(p, q + 1, 0), "qrec", <<p, q>>,
                                   <<TetIdx(p, q, 0), TetIdx(p, q - 1, 0)>>)]])
        r1   == Flatten([i \in DOMAIN PyRange(0, n) |->
                   LET p == PyRange(0, n)[i]
                   IN  [k \in DOMAIN PyRange(0, n - p) |->
                          LET q == PyRange(0, n - p)[k]
                          IN  Step(TetIdx(p, q, 1), "r1", <<p, q>>,
                                   <<TetIdx(p, q, 0)>>)]])
        rrec == Flatten([i \in DOMAIN PyRange(0, n - 1) |->
                   LET p == PyRange(0, n - 1)[i]
                   IN  Flatten([k \in DOMAIN PyRange(0, n - p - 1) |->
                          LET q == PyRange(0, n - p - 1)[k]
                          IN  [l \in DOMAIN PyRange(1, n - p - q) |->
                                 LET r == PyRange(1, n - p - q)[l]
                                 IN  Step(TetIdx(p, q, r + 1), "rrec", <<p, q, r>>,
                                          <<TetIdx(p, q, r), TetIdx(p, q, r - 1)>>)]])])
        norm == Flatten([i \in DOMAIN PyRange(0, n + 1) |->
                   LET p == PyRange(0, n + 1)[i]
                   IN  Flatten([k \in DOMAIN PyRange(0, n - p + 1) |->
                          LET q == PyRange(0, n - p + 1)[k]
                          IN  [l \in DOMAIN PyRange(0, n - p - q + 1) |->
                                 LET r == PyRange(0, n - p - q + 1)[l]
                                 IN  Step(TetIdx(p, q, r), "norm", <<p, q, r>>,
                                          <<TetIdx(p, q, r)>>)]])])
    IN  IF n = 0 THEN one
        ELSE one \o f1 \o prec \o q1 \o qrec \o r1 \o rrec \o norm

\* TetrahedronExpansionSet._tabulate: the final results list, or the
\* exception.
TetTabulateList(n) ==
    RunSteps([res |-> NoneList(((n + 1) * (n + 2) * (n + 3)) \div 6), err |-> "ok"],
             TetSteps(n))

----------------------------------------------------------------------------
\* Numeric types carried through the recurrence, array entries and returns.

\* The numeric type of a point's coordinates: plain floats, Scientific's
\* Derivatives.DerivVar of a given order over nvars variables, or its
\* FirstDerivatives.DerivVar (order 1).
Float == [name |-> "float", order |-> 0, nvars |-> 0]
DerivVar(nvars, order) == [name |-> "DerivVar", order |-> order, nvars |-> nvars]
FirstDerivVar(nvars) == [name |-> "FirstDerivVar", order |-> 1, nvars |-> nvars]

\* results[i][j]: slot v of the results list at point j (points are numbered
\* 1..npts), computed in numeric type ty.
Entry(v, j, ty) ==
    [py |-> ty.name, v |-> v, pt |-> j, order |-> ty.order, nvars |-> ty.nvars]

\* The derivative of order rank of slot v at point j with respect to nvars
\* variables; order 0 is the value.
DTensor(v, j, rank, nvars) ==
    IF rank = 0 THEN Entry(v, j, Float)
    ELSE [py |-> "dtensor", v |-> v, pt |-> j, order |-> rank, nvars |-> nvars]

\* A gradient: one partial derivative per variable.
Gradient(v, j, nvars) ==
    [k \in 1..nvars |-> [py |-> "partial", v |-> v, pt |-> j, wrt |-> k - 1]]

\* A Python tuple.
PyTuple(items) == [py |-> "tuple", items |-> items]

\* x[k] for a tuple or a DerivVar: a DerivVar's item 0 is its value, a first
\* order DerivVar's item 1 its gradient list, a general DerivVar's item d its
\* derivative tensor of order d.
Item(x, k) ==
    IF x.py = "tuple" THEN x.items[k + 1]
    ELSE IF k = 0 THEN Entry(x.v, x.pt, Float)
    ELSE IF x.py = "FirstDerivVar" THEN Gradient(x.v, x.pt, x.nvars)
    ELSE DTensor(x.v, x.pt, k, x.nvars)

\* numpy.array(results) for a results list evaluated at npts points.
Array(list, npts, ty) ==
    [i \in 1..Len(list) |-> [j \in 1..npts |-> Entry(list[i], j, ty)]]

\* What a call gives back: a value (ty is its Python type; num, arr, jet, dict
\* or obj holds it) or a raised exception. A dict is the set of its items.
NoObj == [cls |-> "None"]
Ok(ty, num, arr, jet) ==
    [status |-> "ok", exc |-> "", msg |-> "", ty |-> ty, num |-> num,
     arr |-> arr, jet |-> jet, dict |-> {}, obj |-> NoObj]
OkDict(d) ==
    [status |-> "ok", exc |-> "", msg |-> "", ty |-> "dict", num |-> 0,
     arr |-> <<>>, jet |-> <<>>, dict |-> d, obj |-> NoObj]
OkObj(o) ==
    [status |-> "ok", exc |-> "", msg |-> "", ty |-> o.cls, num |-> 0,
     arr |-> <<>>, jet |-> <<>>, dict |-> {}, obj |-> o]
RaiseMsg(exc, msg) ==
    [status |-> "raise", exc |-> exc, msg |-> msg, ty |-> "", num |-> 0,
     arr |-> <<>>, jet |-> <<>>, dict |-> {}, obj |-> NoObj]
Raise(exc) == RaiseMsg(exc, "")

\* The outcome of a call: what it returns, the internal functions it entered
\* and the lines it printed.
Outcome(r, ent, out) == [ret |-> r, entered |-> ent, out |-> out]

----------------------------------------------------------------------------
\* LineExpansionSet

LineGetNumMembers(n) == n + 1

\* jacobi.eval_jacobi_batch and eval_jacobi_deriv_batch return the rows
\* P_0..P_n for n >= 0; what they do for n < 0 is not fixed: they may raise
\* or return no rows.
JacobiOutcomes(n) == IF n >= 0 THEN {"ok"} ELSE {"ok", "raise"}

\* The Legendre row k scaled by sqrt(k + 0.5).
LineSlot(fn, k) ==
    [op |-> "norm", at |-> <<k>>, args |-> << [op |-> fn, at |-> <<k>>, args |-> <<>>] >>]

LineTabulate(n, npts, jac) ==
    IF npts > 0
    THEN IF jac = "raise"
         THEN Outcome(Raise("IndexError"), {"eval_jacobi_batch"}, <<>>)
         ELSE IF n + 1 < 0
         THEN Outcome(Raise("ValueError"), {"eval_jacobi_batch"}, <<>>)
         ELSE Outcome(Ok("ndarray", 0,
                         Array([k \in 1..(n + 1) |-> LineSlot("jacobi", k - 1)],
                               npts, Float), <<>>),
                      {"eval_jacobi_batch"}, <<>>)
    ELSE Outcome(Ok("list", 0, <<>>, <<>>), {}, <<>>)

\* results has len(pts[0]) columns, the number of coordinates of the first
\* point (1 on a line); storing a row of len(pts) values into it fails to
\* broadcast unless len(pts) is 1.
LineTabulateDerivatives(n, npts, jac) ==
    LET ent == {"eval_jacobi_deriv_batch"}
        ncols == 1
    IN  IF jac = "raise" THEN Outcome(Raise("IndexError"), ent, <<>>)
        ELSE IF npts = 0 THEN Outcome(Raise("IndexError"), ent, <<>>)
        ELSE IF n + 1 < 0 THEN Outcome(Raise("ValueError"), ent, <<>>)
        ELSE IF n + 1 > 0 /\ npts # ncols THEN Outcome(Raise("ValueError"), ent, <<>>)
        ELSE Outcome(Ok("tuple", 0, <<>>,
                        << Array([k \in 1..(n + 1) |-> LineSlot("jacobi_deriv", k - 1)],
                                 ncols, Float) >>),
                     ent, <<>>)

----------------------------------------------------------------------------
\* TriangleExpansionSet operations

\* TriTabulate without the test for an empty point list.
TriTabulateNoEmptyTest(n, npts, ty) ==
    LET t == TriTabulateList(n)
    IN  IF t.err # "ok" THEN Outcome(Raise(t.err), {"_tabulate"}, <<>>)
        ELSE Outcome(Ok("ndarray", 0, Array(t.res, npts, ty), <<>>),
                     {"_tabulate"}, <<>>)

TriTabulate(n, npts, ty) ==
    IF npts = 0 THEN Outcome(Ok("ndarray", 0, <<>>, <<>>), {}, <<>>)
    ELSE LET t == TriTabulateList(n)
         IN  IF t.err # "ok" THEN Outcome(Raise(t.err), {"_tabulate"}, <<>>)
             ELSE Outcome(Ok("ndarray", 0, Array(t.res, npts, ty), <<>>),
                          {"_tabulate"}, <<>>)

\* TriData taking every value from the first point.
TriDataFirstPoint(values, symbolic_tab, i, j) ==
    PyTuple(<< values[i][1], Gradient(symbolic_tab[i], j, 2) >>)

\* data[i][j] = (values[i][j], grad_results[i][j]) of tabulate_derivatives.
TriData(values, symbolic_tab, i, j) ==
    PyTuple(<< values[i][j], Gradient(symbolic_tab[i], j, 2) >>)

\* values = self.tabulate(n, pts); symbolic_tab = self._tabulate(n, X); with
\* no points values has no second axis and X[0] does not exist.
TriTabulateDerivatives(n, npts) ==
    LET values == TriTabulate(n, npts, Float)
        sym == TriTabulateList(n)
    IN  IF values.ret.status = "raise" THEN values
        ELSE IF sym.err # "ok" THEN Outcome(Raise(sym.err), {"_tabulate"}, <<>>)
        ELSE IF npts = 0 THEN Outcome(Raise("IndexError"), {"_tabulate"}, <<>>)
        ELSE Outcome(Ok("list", 0,
                        [i \in 1..Len(values.ret.arr) |->
                           [j \in 1..Len(values.ret.arr[1]) |->
                              TriData(values.ret.arr, sym.res, i, j)]],
                        <<>>),
                     {"_tabulate"}, <<>>)

\* result[d][i][j] = dbfs[i][j][d]
JetBlock(dbfs, d) ==
    [i \in 1..Len(dbfs) |-> [j \in 1..Len(dbfs[i]) |-> Item(dbfs[i][j], d)]]

\* JetRange one block short.
JetRangeShort(order) == PyRange(0, order)

\* range(order + 1): the derivative orders of a jet.
JetRange(order) == PyRange(0, order + 1)

TriTabulateJet(n, npts, order) ==
    LET dbfs == TriTabulate(n, npts, DerivVar(2, order))
    IN  IF dbfs.ret.status = "raise" THEN dbfs
        ELSE Outcome(Ok("list", 0, <<>>,
                        [k \in DOMAIN JetRange(order) |->
                           JetBlock(dbfs.ret.arr, JetRange(order)[k])]),
                     dbfs.entered, <<>>)

----------------------------------------------------------------------------
\* TetrahedronExpansionSet operations; _tabulate prints a line when entered.

TetPrinted == << "dasdas" >>

TetTabulate(n, npts, ty) ==
    IF npts = 0 THEN Outcome(Ok("ndarray", 0, <<>>, <<>>), {}, <<>>)
    ELSE LET t == TetTabulateList(n)
         IN  IF t.err # "ok" THEN Outcome(Raise(t.err), {"_tabulate"}, TetPrinted)
             ELSE Outcome(Ok("ndarray", 0, Array(t.res, npts, ty), <<>>),
                          {"_tabulate"}, TetPrinted)

\* dpts holds one first-order DerivVar per coordinate of each point.
TetTabulateDerivatives(n, npts) == TetTabulate(n, npts, FirstDerivVar(3))

\* data[r][i][j] of _tabulate_dpts: the order-r derivative of symbolic_tab[i]
\* at point j.
TetData(symbolic_tab, npts, r) ==
    [i \in 1..Len(symbolic_tab) |-> [j \in 1..npts |-> DTensor(symbolic_tab[i], j, r, 3)]]

\* _tabulate_dpts(n, order, numpy.array(pts)); with no points x[0] does not
\* exist when the first lambda is evaluated.
TetTabulateJet(n, npts, order) ==
    LET sym == TetTabulateList(n)
    IN  IF sym.err # "ok" THEN Outcome(Raise(sym.err), {"_tabulate"}, TetPrinted)
        ELSE IF npts = 0 /\ order + 1 > 0
        THEN Outcome(Raise("IndexError"), {"_tabulate"}, TetPrinted)
        ELSE Outcome(Ok("list", 0, <<>>,
                        [k \in DOMAIN JetRange(order) |->
                           TetData(sym.res, npts, JetRange(order)[k])]),
                     {"_tabulate"}, TetPrinted)

----------------------------------------------------------------------------
\* Reference cells (FIAT/reference_element.py): a shape, the spatial dimension
\* of the vertices and the cell's name.
Cell(shape, sdim, name) == [shape |-> shape, sdim |-> sdim, name |-> name]
Cells ==
    { Cell("POINT", 0, "Point"),
      Cell("LINE", 1, "UFCInterval"),
      Cell("TRIANGLE", 2, "UFCTriangle"),
      Cell("TETRAHEDRON", 3, "UFCTetrahedron"),
      Cell("TENSORPRODUCT", 2, "TensorProductCell") }

\* reference_element.make_affine_mapping(v1, v2): the map (A, b) between the
\* vertices of two cells.
MakeAffineMapping(from, to) ==
    [A |-> <<"A", from, to>>, b |-> <<"b", from, to>>]

\* __init__ of the three expansion sets: the dimension check, then ref_el,
\* base_ref_el and the affine map A, b.
NewExpansionSet(cls, dim, base, msg, ref_el) ==
    IF ref_el.sdim # dim THEN RaiseMsg("Exception", msg)
    ELSE LET m == MakeAffineMapping(ref_el.name, base)
         IN  OkObj([cls |-> cls, ref_el |-> ref_el, base_ref_el |-> base,
                    A |-> m.A, b |-> m.b])

LineExpansionSet(ref_el) ==
    NewExpansionSet("LineExpansionSet", 1, "DefaultLine", "Must have a line", ref_el)
TriangleExpansionSet(ref_el) ==
    NewExpansionSet("TriangleExpansionSet", 2, "DefaultTriangle",
                    "Must have a triangle", ref_el)
TetrahedronExpansionSet(ref_el) ==
    NewExpansionSet("TetrahedronExpansionSet", 3, "DefaultTetrahedron",
                    "Must be a tetrahedron", ref_el)

\* get_expansion_set falling through to the tetrahedron for any other shape.
get_expansion_set_no_else(ref_el) ==
    IF ref_el.shape = "LINE" THEN LineExpansionSet(ref_el)
    ELSE IF ref_el.shape = "TRIANGLE" THEN TriangleExpansionSet(ref_el)
    ELSE TetrahedronExpansionSet(ref_el)

\* get_expansion_set(ref_el)
get_expansion_set(ref_el) ==
    IF ref_el.shape = "LINE" THEN LineExpansionSet(ref_el)
    ELSE IF ref_el.shape = "TRIANGLE" THEN TriangleExpansionSet(ref_el)
    ELSE IF ref_el.shape = "TETRAHEDRON" THEN TetrahedronExpansionSet(ref_el)
    ELSE RaiseMsg("Exception", "Unknown reference element type.")

\* polynomial_dimension(ref_el, degree)
polynomial_dimension(ref_el, degree) ==
    IF ref_el.shape = "LINE" THEN Ok("int", Max(0, degree + 1), <<>>, <<>>)
    ELSE IF ref_el.shape = "TRIANGLE"
    THEN Ok("int", Max(((degree + 1) * (degree + 2)) \div 2, 0), <<>>, <<>>)
    ELSE IF ref_el.shape = "TETRAHEDRON"
    THEN Ok("int", Max(0, ((degree + 1) * (degree + 2) * (degree + 3)) \div 6),
            <<>>, <<>>)
    ELSE RaiseMsg("Exception", "Unknown reference element type.")

\* The methods each class defines; calling any other name raises
\* AttributeError.
Methods(cls) ==
    IF cls = "LineExpansionSet"
    THEN {"get_num_members", "tabulate", "tabulate_derivatives"}
    ELSE {"get_num_members", "tabulate", "tabulate_derivatives", "tabulate_jet"}

get_num_members(cls, n) ==
    IF cls = "LineExpansionSet" THEN LineGetNumMembers(n)
    ELSE IF cls = "TriangleExpansionSet" THEN TriGetNumMembers(n)
    ELSE TetGetNumMembers(n)

tabulate(cls, n, npts, jac) ==
    IF cls = "LineExpansionSet" THEN LineTabulate(n, npts, jac)
    ELSE IF cls = "TriangleExpansionSet" THEN TriTabulate(n, npts, Float)
    ELSE TetTabulate(n, npts, Float)

tabulate_derivatives(cls, n, npts, jac) ==
    IF cls = "LineExpansionSet" THEN LineTabulateDerivatives(n, npts, jac)
    ELSE IF cls = "TriangleExpansionSet" THEN TriTabulateDerivatives(n, npts)
    ELSE TetTabulateDerivatives(n, npts)

tabulate_jet(cls, n, npts, order) ==
    IF cls = "TriangleExpansionSet" THEN TriTabulateJet(n, npts, order)
    ELSE TetTabulateJet(n, npts, order)

\* es.op(...) on an object of class cls.
Invoke(cls, op, n, npts, order, jac) ==
    IF op \notin Methods(cls) THEN Outcome(Raise("AttributeError"), {}, <<>>)
    ELSE IF op = "get_num_members"
    THEN Outcome(Ok("int", get_num_members(cls, n), <<>>, <<>>), {}, <<>>)
    ELSE IF op = "tabulate" THEN tabulate(cls, n, npts, jac)
    ELSE IF op = "tabulate_derivatives" THEN tabulate_derivatives(cls, n, npts, jac)
    ELSE tabulate_jet(cls, n, npts, order)

----------------------------------------------------------------------------
\* PointElement (point_element.py)

\* An entry of numpy.ones.
Ones == [op |-> "ones", at |-> <<>>, args |-> <<>>]

\* PointElement.tabulate(order, points): the assert statement raises
\* AssertionError for order != 0; order 0 gives {(): numpy.ones((1, len(points)))}.
PointElementTabulateNoAssert(order, npts) ==
    OkDict({ [key |-> <<>>, val |-> Array(<< Ones >>, npts, Float)] })
PointElementTabulate(order, npts) ==
    IF order # 0
    THEN RaiseMsg("AssertionError",
                  "Derivatives are not well-defined on a 0-dimensional domain")
    ELSE OkDict({ [key |-> <<>>, val |-> Array(<< Ones >>, npts, Float)] })

----------------------------------------------------------------------------
\* The state: the expansion set the caller holds, the last call with its
\* arguments and what it gave back, the internal functions that call entered,
\* and standard output; the tabulate calls in progress side by side (workers);
\* the finite elements whose facet-support maps are asked for (elems) and the
\* record of the computations of those maps (log).
VARIABLES es, call, ret, entered, stdout, workers, elems, log

vars == <<es, call, ret, entered, stdout, workers, elems, log>>

CallOf(op, shape, n, npts, order) ==
    [op |-> op, shape |-> shape, n |-> n, npts |-> npts, order |-> order]

Init ==
    /\ es = NoObj
    /\ call = CallOf("none", "", 0, 0, 0)
    /\ ret = Ok("NoneType", 0, <<>>, <<>>)
    /\ entered = {}
    /\ stdout = <<>>
    /\ workers = <<>>
    /\ elems = <<>>
    /\ log = <<>>

\* es = get_expansion_set(cell); a raise leaves the caller's es as it was.
GetExpansionSet(cell) ==
    LET r == get_expansion_set(cell)
    IN  /\ call' = CallOf("get_expansion_set", cell.shape, 0, 0, 0)
        /\ ret' = r
        /\ es' = IF r.status = "ok" THEN r.obj ELSE es
        /\ entered' = {}
        /\ UNCHANGED <<stdout, workers, elems, log>>

PolynomialDimension(cell, degree) ==
    /\ call' = CallOf("polynomial_dimension", cell.shape, degree, 0, 0)
    /\ ret' = polynomial_dimension(cell, degree)
    /\ entered' = {}
    /\ UNCHANGED <<es, stdout, workers, elems, log>>

\* self after a method call: get_num_members, tabulate, tabulate_derivatives,
\* tabulate_jet and _tabulate read self.A, self.b (through self.mapping) and
\* assign no attribute of self.
SelfAfterCallRemapped(self, op) ==
    IF op = "get_num_members" THEN self
    ELSE [self EXCEPT !.A = <<"A", self.base_ref_el, self.base_ref_el>>]
SelfAfterCall(self, op) == self

\* A method call es.op(...) on the expansion set held takes the state to the
\* call's outcome o; standard output keeps at most MaxStdout lines.
Fits(o) == Len(stdout) + Len(o.out) <= MaxStdout

GetNumMembers(n) ==
    /\ es # NoObj
    /\ LET o == Invoke(es.cls, "get_num_members", n, 0, 0, "ok")
       IN  /\ Fits(o)
           /\ call' = CallOf("get_num_members", es.ref_el.shape, n, 0, 0)
           /\ ret' = o.ret
           /\ entered' = o.entered
           /\ stdout' = stdout \o o.out
    /\ es' = SelfAfterCall(es, "get_num_members")
    /\ UNCHANGED <<workers, elems, log>>

Tabulate(n, npts, jac) ==
    /\ es # NoObj
    /\ LET o == Invoke(es.cls, "tabulate", n, npts, 0, jac)
       IN  /\ Fits(o)
           /\ call' = CallOf("tabulate", es.ref_el.shape, n, npts, 0)
           /\ ret' = o.ret
           /\ entered' = o.entered
           /\ stdout' = stdout \o o.out
    /\ es' = SelfAfterCall(es, "tabulate")
    /\ UNCHANGED <<workers, elems, log>>

TabulateDerivatives(n, npts, jac) ==
    /\ es # NoObj
    /\ LET o == Invoke(es.cls, "tabulate_derivatives", n, npts, 0, jac)
       IN  /\ Fits(o)
           /\ call' = CallOf("tabulate_derivatives", es.ref_el.shape, n, npts, 0)
           /\ ret' = o.ret
           /\ entered' = o.entered
           /\ stdout' = stdout \o o.out
    /\ es' = SelfAfterCall(es, "tabulate_derivatives")
    /\ UNCHANGED <<workers, elems, log>>

TabulateJet(n, npts, order) ==
    /\ es # NoObj
    /\ LET o == Invoke(es.cls, "tabulate_jet", n, npts, order, "ok")
       IN  /\ Fits(o)
           /\ call' = CallOf("tabulate_jet", es.ref_el.shape, n, npts, order)
           /\ ret' = o.ret
           /\ entered' = o.entered
           /\ stdout' = stdout \o o.out
    /\ es' = SelfAfterCall(es, "tabulate_jet")
    /\ UNCHANGED <<workers, elems, log>>

\* PointElement().tabulate(order, points): the element is built for the call
\* and holds nothing the call changes.
PointTabulate(order, npts) ==
    /\ call' = CallOf("PointElement.tabulate", "POINT", 0, npts, order)
    /\ ret' = PointElementTabulate(order, npts)
    /\ entered' = {}
    /\ UNCHANGED <<es, stdout, workers, elems, log>>

Next ==
    \/ \E cell \in Cells : GetExpansionSet(cell)
    \/ \E cell \in Cells, degree \in Degrees : PolynomialDimension(cell, degree)
    \/ \E n \in Degrees : GetNumMembers(n)
    \/ \E n \in Degrees, npts \in NPoints :
          \E jac \in JacobiOutcomes(n) : Tabulate(n, npts, jac)
    \/ \E n \in Degrees, npts \in NPoints :
          \E jac \in JacobiOutcomes(n) : TabulateDerivatives(n, npts, jac)
    \/ \E n \in Degrees, npts \in NPoints, order \in Orders :
          TabulateJet(n, npts, order)
    \/ \E order \in Orders, npts \in NPoints : PointTabulate(order, npts)

Spec == Init /\ [][Next]_vars

----------------------------------------------------------------------------
\* The recurrence coefficients and the seed factors of _tabulate, in exact
\* arithmetic: a number is a fraction <<numerator, denominator>> and a factor
\* linear in the reference coordinates y and z is the record of its constant
\* term c and its coefficients of y and z.

Frac(num, den) == << num, den >>
FracAdd(u, v) == << u[1] * v[2] + v[1] * u[2], u[2] * v[2] >>
FracMul(u, v) == << u[1] * v[1], u[2] * v[2] >>
Linear(c, y, z) == [c |-> c, y |-> y, z |-> z]
LinearScale(u, f) ==
    Linear(FracMul(u, f.c), FracMul(u, f.y), FracMul(u, f.z))
LinearAdd(f, g) ==
    Linear(FracAdd(f.c, g.c), FracAdd(f.y, g.y), FracAdd(f.z, g.z))

\* jrc with 2*n+a+b in place of 2*n+1+a+b in the numerator of an.
jrcShortNumerator(a, b, n) ==
    [an |-> Frac((2*n + a + b) * (2*n + 2 + a + b), 2 * (n + 1) * (n + 1 + a + b)),
     bn |-> Frac((a*a - b*b) * (2*n + 1 + a + b),
                 2 * (n + 1) * (2*n + a + b) * (n + 1 + a + b)),
     cn |-> Frac((n + a) * (n + b) * (2*n + 2 + a + b),
                 (n + 1) * (n + 1 + a + b) * (2*n + a + b))]

\* jrc(a, b, n) of _tabulate: the three quotients, each a float division.
jrc(a, b, n) ==
    [an |-> Frac((2*n + 1 + a + b) * (2*n + 2 + a + b), 2 * (n + 1) * (n + 1 + a + b)),
     bn |-> Frac((a*a - b*b) * (2*n + 1 + a + b),
                 2 * (n + 1) * (2*n + a + b) * (n + 1 + a + b)),
     cn |-> Frac((n + a) * (n + b) * (2*n + 2 + a + b),
                 (n + 1) * (n + 1 + a + b) * (2*n + a + b))]

\* The arguments of the jrc call made for an assignment of the q-recurrence
\* (jrc(2*p+1, 0, q)) or of the tetrahedron r-recurrence
\* (jrc(2*p+2*q+2, 0, r)); the other assignments call none.
JrcCallShifted(s) ==
    IF s.op = "qrec" THEN << << 2 * s.at[1] + 1, 0, s.at[2] - 1 >> >>
    ELSE IF s.op = "rrec"
    THEN << << 2 * s.at[1] + 2 * s.at[2] + 2, 0, s.at[3] - 1 >> >>
    ELSE << >>
JrcCall(s) ==
    IF s.op = "qrec" THEN << << 2 * s.at[1] + 1, 0, s.at[2] >> >>
    ELSE IF s.op = "rrec"
    THEN << << 2 * s.at[1] + 2 * s.at[2] + 2, 0, s.at[3] >> >>
    ELSE << >>

\* The jrc calls of a _tabulate, in program order.
JrcCalls(steps) == Flatten([k \in DOMAIN steps |-> JrcCall(steps[k])])

\* The factor of results[idx(p, 0)] in the triangle q = 1 seed:
\* 0.5 * (1 + 2.0*p + (3.0 + 2.0*p) * y).
TriSeedFactor(p) ==
    LinearScale(Frac(1, 2),
                Linear(Frac(1 + 2 * p, 1), Frac(3 + 2 * p, 1), Frac(0, 1)))

\* The factor of results[idx(p, 0, 0)] in the tetrahedron q = 1 seed:
\* p * (1.0 + y) + (2.0 + 3.0 * y + z) / 2.
TetSeedFactor(p) ==
    LinearAdd(LinearScale(Frac(p, 1), Linear(Frac(1, 1), Frac(1, 1), Frac(0, 1))),
              LinearScale(Frac(1, 2),
                          Linear(Frac(2, 1), Frac(3, 1), Frac(1, 1))))

\* factor3 = 0.5 * (1 + 2.0 * y + z) and factor4 = 0.5 * (1 - z)
factor3 == LinearScale(Frac(1, 2), Linear(Frac(1, 1), Frac(2, 1), Frac(1, 1)))
factor4 == LinearScale(Frac(1, 2), Linear(Frac(1, 1), Frac(0, 1), Frac(0 - 1, 1)))

\* The factor of the q-recurrence: a1 * y + a2 on the triangle,
\* aq * factor3 + bq * factor4 on the tetrahedron.
TriRecurrenceFactor(a1, a2) == Linear(a2, a1, Frac(0, 1))
TetRecurrenceFactor(aq, bq) ==
    LinearAdd(LinearScale(aq, factor3), LinearScale(bq, factor4))

----------------------------------------------------------------------------
\* Tabulation sharded over point batches: the points of one point list,
\* numbered 1..N, are cut into two non-empty batches and each batch is
\* tabulated by its own tabulate(n, batch) call on the same expansion set; the
\* two calls run side by side, one assignment of _tabulate at a time.

\* numpy.array(results) for a results list evaluated at the points pts: all
\* the arithmetic of _tabulate is elementwise over the points axis.
ArrayAt(list, pts, ty) ==
    [i \in 1..Len(list) |-> [j \in 1..Len(pts) |-> Entry(list[i], pts[j], ty)]]

\* The assignments of _tabulate(n, pts) and the length of its results list.
StepsOf(cls, n) ==
    IF cls = "TriangleExpansionSet" THEN TriSteps(n) ELSE TetSteps(n)
ResultsLen(cls, n) ==
    IF cls = "TriangleExpansionSet" THEN ((n + 1) * (n + 2)) \div 2
    ELSE ((n + 1) * (n + 2) * (n + 3)) \div 6

\* results is a local variable of _tabulate: the call of worker w works on
\* the list of its own frame.
FrameShared(w) == 1
FrameOf(w) == w

\* A call not yet started on its batch pts.
Worker(n, pts) ==
    [n |-> n, pts |-> pts, state |-> "idle", pc |-> 0, results |-> <<>>,
     err |-> "ok", out |-> <<>>]

\* tabulate up to the first assignment of _tabulate: the batch is non-empty,
\* the points are mapped, _tabulate is entered (the tetrahedron one prints)
\* and allocates results.
ShardEnter(w) ==
    /\ workers[w].state = "idle"
    /\ workers' = [workers EXCEPT
                      ![w].state = "running",
                      ![FrameOf(w)].results =
                          NoneList(ResultsLen(es.cls, workers[w].n))]
    /\ stdout' = stdout \o (IF es.cls = "TetrahedronExpansionSet"
                             THEN TetPrinted ELSE <<>>)
    /\ UNCHANGED <<es, call, ret, entered, elems, log>>

\* The next assignment of the call of worker w.
ShardStep(w) ==
    /\ workers[w].state = "running"
    /\ workers[w].pc < Len(StepsOf(es.cls, workers[w].n))
    /\ LET st == ApplyStep([res |-> workers[FrameOf(w)].results, err |-> "ok"],
                           StepsOf(es.cls, workers[w].n)[workers[w].pc + 1])
       IN  workers' = [workers EXCEPT
                         ![w].pc = @ + 1,
                         ![w].err = st.err,
                         ![w].state = IF st.err = "ok" THEN "running" ELSE "raised",
                         ![FrameOf(w)].results = st.res]
    /\ UNCHANGED <<es, call, ret, entered, stdout, elems, log>>

\* return results, and numpy.array(...) of it in tabulate.
ShardReturn(w) ==
    /\ workers[w].state = "running"
    /\ workers[w].pc = Len(StepsOf(es.cls, workers[w].n))
    /\ workers' = [workers EXCEPT
                      ![w].state = "done",
                      ![w].out = ArrayAt(workers[FrameOf(w)].results,
                                         workers[w].pts, Float)]
    /\ UNCHANGED <<es, call, ret, entered, stdout, elems, log>>

ShardInit ==
    /\ es \in { get_expansion_set(c).obj :
                   c \in { Cell("TRIANGLE", 2, "UFCTriangle"),
                           Cell("TETRAHEDRON", 3, "UFCTetrahedron") } }
    /\ call = CallOf("none", "", 0, 0, 0)
    /\ ret = Ok("NoneType", 0, <<>>, <<>>)
    /\ entered = {}
    /\ stdout = <<>>
    /\ \E n \in 0..MaxShardDeg, N \in 2..(MaxPts + 1) : \E k \in 1..(N - 1) :
          workers = << Worker(n, PyRange(1, k + 1)),
                       Worker(n, PyRange(k + 1, N + 1)) >>
    /\ elems = <<>>
    /\ log = <<>>

ShardNext ==
    \/ \E w \in DOMAIN workers : ShardEnter(w)
    \/ \E w \in DOMAIN workers : ShardStep(w)
    \/ \E w \in DOMAIN workers : ShardReturn(w)

SpecShard == ShardInit /\ [][ShardNext]_vars

----------------------------------------------------------------------------
\* Facet-support caches (tensor_product.py)

\* An object's attributes are the set of its (name, value) pairs.
HasAttr(o, name) == \E a \in o.attrs : a.name = name
GetAttr(o, name) == (CHOOSE a \in o.attrs : a.name = name).val
SetAttr(o, name, val) ==
    [o EXCEPT !.attrs = { a \in @ : a.name # name }
                            \cup { [name |-> name, val |-> val] }]

\* reference_element.TensorProductCell(A, B)
TensorProductCell(A, B) == [cls |-> "TensorProductCell", A |-> A, B |-> B]

\* cell.get_facet_element(): the cell of one dimension less.
GetFacetElement(cell) ==
    IF cell.shape = "TRIANGLE" THEN Cell("LINE", 1, "UFCInterval")
    ELSE Cell("POINT", 0, "Point")

\* A finite element of the given polynomial degree on a cell, nothing cached.
Element(cls, ref_el, degree) ==
    [cls |-> cls, ref_el |-> ref_el, polydegree |-> degree, attrs |-> {}]

\* quadrature.make_quadrature(cell, degree)
make_quadrature(cell, m) == [cell |-> cell, m |-> m]

\* finite_element._facet_support_dofs(elem, q, ft, facets): a new map made
\* for element e; serial tells the maps of different computations apart.
facet_support_dofs(e, q, ft, facets, serial) ==
    [cls |-> "dict", elem |-> e, q |-> q, ft |-> ft, facets |-> facets,
     serial |-> serial]

\* What a facet-support function does to elem (element number e): the element
\* afterwards, what is returned, and whether the map was computed.
FacetOutcome(elem, r, computed) == [elem |-> elem, ret |-> r, computed |-> computed]

\* horiz_facet_support_dofs without the hasattr test.
horiz_facet_support_dofs_uncached(elem, e, serial) ==
    IF elem.ref_el.cls # "TensorProductCell"
    THEN FacetOutcome(elem, Raise("AssertionError"), FALSE)
    ELSE LET q == make_quadrature(elem.ref_el.A, Max(2 * elem.polydegree, 1))
             dim == elem.ref_el.A.sdim
             m == facet_support_dofs(e, q, "get_horiz_facet_transform",
                                     <<dim, 0>>, serial)
             stored == SetAttr(elem, "_horiz_facet_support_dofs", m)
         IN  FacetOutcome(stored,
                          OkObj(GetAttr(stored, "_horiz_facet_support_dofs")),
                          TRUE)

horiz_facet_support_dofs(elem, e, serial) ==
    IF ~HasAttr(elem, "_horiz_facet_support_dofs")
    THEN IF elem.ref_el.cls # "TensorProductCell"
         THEN FacetOutcome(elem, Raise("AssertionError"), FALSE)
         ELSE LET q == make_quadrature(elem.ref_el.A, Max(2 * elem.polydegree, 1))
                  dim == elem.ref_el.A.sdim
                  m == facet_support_dofs(e, q, "get_horiz_facet_transform",
                                          <<dim, 0>>, serial)
                  stored == SetAttr(elem, "_horiz_facet_support_dofs", m)
              IN  FacetOutcome(stored,
                               OkObj(GetAttr(stored, "_horiz_facet_support_dofs")),
                               TRUE)
    ELSE FacetOutcome(elem, OkObj(GetAttr(elem, "_horiz_facet_support_dofs")),
                      FALSE)

vert_facet_support_dofs(elem, e, serial) ==
    IF ~HasAttr(elem, "_vert_facet_support_dofs")
    THEN IF elem.ref_el.cls # "TensorProductCell"
         THEN FacetOutcome(elem, Raise("AssertionError"), FALSE)
         ELSE LET deg == Max(2 * elem.polydegree, 1)
                  q == IF elem.ref_el.A.shape = "LINE"
                       THEN make_quadrature(elem.ref_el.B, deg)
                       ELSE make_quadrature(
                                TensorProductCell(GetFacetElement(elem.ref_el.A),
                                                  elem.ref_el.B),
                                <<deg, deg>>)
                  dim == elem.ref_el.A.sdim
                  m == facet_support_dofs(e, q, "get_vert_facet_transform",
                                          <<dim - 1, 1>>, serial)
                  stored == SetAttr(elem, "_vert_facet_support_dofs", m)
              IN  FacetOutcome(stored,
                               OkObj(GetAttr(stored, "_vert_facet_support_dofs")),
                               TRUE)
    ELSE FacetOutcome(elem, OkObj(GetAttr(elem, "_vert_facet_support_dofs")),
                      FALSE)

\* The elements the callers hold: tensor-product elements over an interval
\* and over a triangle, and an element on a plain triangle.
FacetElems(degree) ==
    LET interval == Cell("LINE", 1, "UFCInterval")
        triangle == Cell("TRIANGLE", 2, "UFCTriangle")
    IN  << Element("TensorProductElement",
                   TensorProductCell(interval, interval), degree),
           Element("TensorProductElement",
                   TensorProductCell(triangle, interval), degree),
           Element("FiniteElement",
                   [cls |-> "UFCTriangle"],
                   degree) >>

FacetCallOf(op, e) ==
    [op |-> op, shape |-> "", n |-> 0, npts |-> 0, order |-> 0, elem |-> e]

\* A call fn(elems[e]) with outcome o; log records each computation of a map.
\* At most MaxComputations computations are recorded.
FacetCall(fn, e, o) ==
    /\ o.computed => Len(log) < MaxComputations
    /\ call' = FacetCallOf(fn, e)
    /\ ret' = o.ret
    /\ elems' = [elems EXCEPT ![e] = o.elem]
    /\ log' = IF o.computed THEN Append(log, [fn |-> fn, elem |-> e]) ELSE log
    /\ UNCHANGED <<es, entered, stdout, workers>>

HorizFacetSupportDofs(e) ==
    FacetCall("horiz_facet_support_dofs", e,
              horiz_facet_support_dofs(elems[e], e, Len(log) + 1))

VertFacetSupportDofs(e) ==
    FacetCall("vert_facet_support_dofs", e,
              vert_facet_support_dofs(elems[e], e, Len(log) + 1))

FacetInit ==
    /\ es = NoObj
    /\ call = FacetCallOf("none", 0)
    /\ ret = Ok("NoneType", 0, <<>>, <<>>)
    /\ entered = {}
    /\ stdout = <<>>
    /\ workers = <<>>
    /\ \E degree \in 0..MaxDeg : elems = FacetElems(degree)
    /\ log = <<>>

FacetNext ==
    \/ \E e \in DOMAIN elems : HorizFacetSupportDofs(e)
    \/ \E e \in DOMAIN elems : VertFacetSupportDofs(e)

SpecFacet == FacetInit /\ [][FacetNext]_vars

----------------------------------------------------------------------------
\* Composite elements (tensor_product.py, enriched.py) and BDFMDual (BDFM.py)

\* A Python dict with the keys 0..k-1, from the sequence of its values.
Dict0(values) == [i \in 0..(Len(values) - 1) |-> values[i + 1]]

\* A scalar-valued, affine-mapped finite element with sd basis functions on
\* a cell; entity_dofs[dim][entity] is the list of its dofs on that entity.
SubElement(name, cell, sd, entity_dofs) ==
    [cls |-> name, ref_el |-> cell, sd |-> sd, entity_dofs |-> entity_dofs,
     mapping |-> "affine", value_shape |-> <<>>]

\* The elements that are combined: DG0, P1 and P2 on the interval and P1 on
\* the triangle.
SubElements ==
    LET interval == Cell("LINE", 1, "UFCInterval")
        triangle == Cell("TRIANGLE", 2, "UFCTriangle")
    IN  { SubElement("DG0", interval, 1,
                     Dict0(<< Dict0(<< <<>>, <<>> >>), Dict0(<< <<0>> >>) >>)),
          SubElement("P1", interval, 2,
                     Dict0(<< Dict0(<< <<0>>, <<1>> >>), Dict0(<< <<>> >>) >>)),
          SubElement("P2", interval, 3,
                     Dict0(<< Dict0(<< <<0>>, <<1>> >>), Dict0(<< <<2>> >>) >>)),
          SubElement("P1Triangle", triangle, 3,
                     Dict0(<< Dict0(<< <<0>>, <<1>>, <<2>> >>),
                              Dict0(<< <<>>, <<>>, <<>> >>),
                              Dict0(<< <<>> >>) >>)) }

RECURSIVE Mis(_, _)
\* polynomial_set.mis(m, n): the multi-indices of length m and sum n.
Mis(m, n) ==
    IF m = 0 THEN (IF n = 0 THEN { <<>> } ELSE {})
    ELSE UNION { { <<a>> \o t : t \in Mis(m - 1, n - a) } : a \in 0..n }

\* The multi-indices of length m and sum at most order.
Alphas(m, order) == UNION { Mis(m, i) : i \in 0..order }

\* Point number id of the caller's list, restricted to its coordinates
\* lo..hi-1, and the slice point[a:b].
Point(id, dim) == [id |-> id, lo |-> 0, hi |-> dim]
Slice(point, a, b) ==
    [id |-> point.id, lo |-> point.lo + a,
     hi |-> IF point.lo + b < point.hi THEN point.lo + b ELSE point.hi]

\* The value a sub-element's tabulate gives for derivative alpha of its basis
\* function x at a point, and the product of two values.
BasisValue(name, x, alpha, point) ==
    [py |-> "float", op |-> "basis", fn |-> <<name, x>>, alpha |-> alpha,
     point |-> point, args |-> <<>>]
Mul(u, v) ==
    [py |-> "float", op |-> "mul", fn |-> <<>>, alpha |-> <<>>,
     point |-> u.point, args |-> <<u, v>>]

\* dict[key] for a dict given as the set of its items.
DictGet(d, key) == (CHOOSE it \in d : it.key = key).val

\* E.tabulate(order, points) of a sub-element: one array[basis_fn][point] per
\* multi-index of sum at most order.
SubTabulate(E, order, points) ==
    { [key |-> alpha,
       val |-> [x \in 1..E.sd |->
                  [j \in 1..Len(points) |->
                      BasisValue(E.cls, x - 1, alpha, points[j])]]] :
      alpha \in Alphas(E.ref_el.sdim, order) }

\* [x*Bsdim + y for x in xs for y in ys]
ProductDofs(xs, ys, Bsdim) ==
    Flatten([i \in DOMAIN xs |-> [k \in DOMAIN ys |-> xs[i] * Bsdim + ys[k]]])

\* ProductDofs numbered with A's dimension as the stride.
TensorProductEntityIdsStrideA(A, B) ==
    [key \in (DOMAIN A.entity_dofs) \X (DOMAIN B.entity_dofs) |->
        LET EA == A.entity_dofs[key[1]]
            EB == B.entity_dofs[key[2]]
            nA == Cardinality(DOMAIN EA)
            nB == Cardinality(DOMAIN EB)
        IN  [c \in 0..(nA * nB - 1) |->
                ProductDofs(EA[c \div nB], EB[c % nB], A.sd)]]

\* entity_ids of TensorProductElement.__init__: for every pair of entity
\* dimensions, the pairs (entityA, entityB) numbered by dim_cur in loop order.
TensorProductEntityIds(A, B) ==
    [key \in (DOMAIN A.entity_dofs) \X (DOMAIN B.entity_dofs) |->
        LET EA == A.entity_dofs[key[1]]
            EB == B.entity_dofs[key[2]]
            nA == Cardinality(DOMAIN EA)
            nB == Cardinality(DOMAIN EB)
        IN  [c \in 0..(nA * nB - 1) |->
                ProductDofs(EA[c \div nB], EB[c % nB], B.sd)]]

\* TensorProductElement(A, B); the sub-elements here are affine.
TensorProductElement(A, B) ==
    OkObj([cls |-> "TensorProductElement", A |-> A, B |-> B,
           ref_el |-> TensorProductCell(A.ref_el, B.ref_el),
           entity_ids |-> TensorProductEntityIds(A, B)])

\* numpy.outer(u, v), ravel (row by row), array[..., j] and transpose.
Outer(u, v) == [x \in DOMAIN u |-> [y \in DOMAIN v |-> Mul(u[x], v[y])]]
Ravel(m) == Flatten(m)
Column(arr, j) == [x \in DOMAIN arr |-> arr[x][j]]
Transpose(m) ==
    IF m = <<>> THEN <<>>
    ELSE [r \in DOMAIN m[1] |-> [j \in DOMAIN m |-> m[j][r]]]

\* TensorProductElement.tabulate for two scalar-valued sub-elements.
TensorProductTabulate(self, order, points) ==
    LET Asdim == self.A.ref_el.sdim
        Bsdim == self.B.ref_el.sdim
        pointsA == [j \in DOMAIN points |-> Slice(points[j], 0, Asdim)]
        pointsB == [j \in DOMAIN points |-> Slice(points[j], Asdim, Asdim + Bsdim)]
        Atab == SubTabulate(self.A, order, pointsA)
        Btab == SubTabulate(self.B, order, pointsB)
        npoints == Len(points)
    IN  IF Len(self.A.value_shape) + Len(self.B.value_shape) > 1
        THEN Raise("NotImplementedError")
        ELSE OkDict({ [key |-> alpha,
                       val |-> Transpose(
                          [j \in 1..npoints |->
                              Ravel(Outer(
                                 Column(DictGet(Atab, SubSeq(alpha, 1, Asdim)), j),
                                 Column(DictGet(Btab, SubSeq(alpha, Asdim + 1,
                                                             Asdim + Bsdim)), j)))])] :
                      alpha \in Alphas(Asdim + Bsdim, order) })

TensorProductSpaceDimension(self) == self.A.sd * self.B.sd

\* entity_ids of EnrichedElement without the offset.
EnrichedEntityIdsNoOffset(A, B) ==
    [d \in DOMAIN A.entity_dofs |->
        [e \in DOMAIN A.entity_dofs[d] |->
            A.entity_dofs[d][e] \o B.entity_dofs[d][e]]]

\* entity_ids of EnrichedElement.__init__: A's list followed by B's dofs
\* shifted by offset = A.space_dimension().
EnrichedEntityIds(A, B) ==
    [d \in DOMAIN A.entity_dofs |->
        [e \in DOMAIN A.entity_dofs[d] |->
            A.entity_dofs[d][e]
              \o [i \in DOMAIN B.entity_dofs[d][e] |->
                     B.entity_dofs[d][e][i] + A.sd]]]

EnrichedElement(A, B) ==
    IF A.ref_el # B.ref_el
    THEN RaiseMsg("ValueError",
                  "Elements must be defined on the same reference element")
    ELSE IF A.mapping # B.mapping
    THEN RaiseMsg("ValueError", "Elements must have same mapping")
    ELSE IF A.value_shape # B.value_shape
    THEN RaiseMsg("ValueError", "Elements must have the same value shape")
    ELSE OkObj([cls |-> "EnrichedElement", A |-> A, B |-> B,
                ref_el |-> A.ref_el,
                entity_ids |-> EnrichedEntityIds(A, B)])

\* EnrichedElement.tabulate for scalar-valued sub-elements: for every index
\* of Atab, rows :Asd are Atab[index] and rows Asd: are Btab[index].
EnrichedTabulate(self, order, points) ==
    LET Asd == self.A.sd
        Bsd == self.B.sd
        Atab == SubTabulate(self.A, order, points)
        Btab == SubTabulate(self.B, order, points)
    IN  IF Len(self.A.value_shape) > 1 THEN Raise("NotImplementedError")
        ELSE OkDict({ [key |-> it.key,
                       val |-> [r \in 1..(Asd + Bsd) |->
                                  IF r <= Asd THEN it.val[r]
                                  ELSE DictGet(Btab, it.key)[r - Asd]]] :
                      it \in Atab })

EnrichedSpaceDimension(self) == self.A.sd + self.B.sd

\* BDFMDual (BDFM.py).  A Python value that is an int or a list.
PyInt(v) == [py |-> "int", v |-> v, items |-> <<>>]
PyList(items) == [py |-> "list", v |-> 0, items |-> items]

\* shapes.dimension(shape), shapes.entity_range(shape, dim) and
\* shapes.polynomial_dimension(shape, k) for the triangle and the tetrahedron.
ShapeDimension(shape) == IF shape = "TRIANGLE" THEN 2 ELSE 3
EntityRange(shape, dim) ==
    PyRange(0, IF shape = "TRIANGLE" THEN << 3, 3, 1 >>[dim + 1]
               ELSE << 4, 6, 4, 1 >>[dim + 1])
ShapesPolynomialDimension(shape, k) ==
    IF shape = "TRIANGLE" THEN ((k + 1) * (k + 2)) \div 2
    ELSE ((k + 1) * (k + 2) * (k + 3)) \div 6

\* len(shapes.make_points(shape, dim, entity, order)): the lattice points of
\* the given order in the interior of an edge or of a face.
MakePointsLen(dim, order) ==
    IF dim = 1 THEN Max(order - 1, 0)
    ELSE Max(((order - 1) * (order - 2)) \div 2, 0)

\* len(interior_moments): for k > 1 the gradients of pk[1:dim P(k-1)] and the
\* nphik members of PhiK, none otherwise.
InteriorMomentsLen(shape, k, nphik) ==
    IF k > 1 THEN (ShapesPolynomialDimension(shape, k - 1) - 1) + nphik ELSE 0

RECURSIVE BdryLoop(_, _, _)
\* The loop "for j in entity_range(shape, d-1): for k in range(pts_per_bdry):
\* entity_ids[d-1][j] = node_cur; node_cur += 1" over the remaining
\* iterations its, from the state st of entity_ids[d-1] and node_cur.
BdryLoop(its, i, st) ==
    IF i > Len(its) THEN st
    ELSE LET j == its[i]
         IN  BdryLoop(its, i + 1,
                      [ids |-> [x \in (DOMAIN st.ids) \cup {j} |->
                                  IF x = j THEN PyInt(st.node_cur) ELSE st.ids[x]],
                       node_cur |-> st.node_cur + 1])

\* BDFMDual.__init__(shape, k, U): entity_ids and the number of nodes of ls.
BDFMDual(shape, k, nphik) ==
    LET d == ShapeDimension(shape)
        facets == EntityRange(shape, d - 1)
        pts_per_bdry == MakePointsLen(d - 1, d + k - 1)
        ninterior == InteriorMomentsLen(shape, k, nphik)
        lower == [i \in 0..(d - 2) |->
                    [j \in 0..(Len(EntityRange(shape, i)) - 1) |-> PyList(<<>>)]]
        its == Flatten([f \in DOMAIN facets |->
                           [k2 \in DOMAIN PyRange(0, pts_per_bdry) |-> facets[f]]])
        bdry == BdryLoop(its, 1, [ids |-> <<>>, node_cur |-> 0])
        interior == PyList(PyRange(bdry.node_cur, bdry.node_cur + ninterior))
    IN  OkObj([cls |-> "BDFMDual", shape |-> shape, d |-> d,
               pts_per_bdry |-> pts_per_bdry, ninterior |-> ninterior,
               nnodes |-> Len(facets) * pts_per_bdry + ninterior,
               entity_ids |-> [i \in 0..d |->
                                 IF i < d - 1 THEN lower[i]
                                 ELSE IF i = d - 1 THEN bdry.ids
                                 ELSE interior]])

\* The callers of the element classes: they construct a composite element or
\* a BDFMDual and hold it in es, ask a composite element for its dimension
\* and tabulate it at npts points.
NewTensorProductElement(A, B) ==
    /\ call' = CallOf("TensorProductElement", "", 0, 0, 0)
    /\ ret' = TensorProductElement(A, B)
    /\ es' = IF ret'.status = "ok" THEN ret'.obj ELSE es
    /\ UNCHANGED <<entered, stdout, workers, elems, log>>

NewEnrichedElement(A, B) ==
    /\ call' = CallOf("EnrichedElement", "", 0, 0, 0)
    /\ ret' = EnrichedElement(A, B)
    /\ es' = IF ret'.status = "ok" THEN ret'.obj ELSE es
    /\ UNCHANGED <<entered, stdout, workers, elems, log>>

NewBDFMDual(shape, k, nphik) ==
    /\ call' = CallOf("BDFMDual", shape, k, 0, 0)
    /\ ret' = BDFMDual(shape, k, nphik)
    /\ es' = IF ret'.status = "ok" THEN ret'.obj ELSE es
    /\ UNCHANGED <<entered, stdout, workers, elems, log>>

SpaceDimension ==
    /\ es.cls \in {"TensorProductElement", "EnrichedElement"}
    /\ call' = CallOf("space_dimension", "", 0, 0, 0)
    /\ ret' = Ok("int",
                 IF es.cls = "TensorProductElement"
                 THEN TensorProductSpaceDimension(es)
                 ELSE EnrichedSpaceDimension(es), <<>>, <<>>)
    /\ UNCHANGED <<es, entered, stdout, workers, elems, log>>

ElementTabulate(order, npts) ==
    /\ es.cls \in {"TensorProductElement", "EnrichedElement"}
    /\ call' = CallOf("tabulate", "", 0, npts, order)
    /\ LET points == [j \in 1..npts |->
                         IF es.cls = "TensorProductElement"
                         THEN Point(j, es.A.ref_el.sdim + es.B.ref_el.sdim)
                         ELSE Point(j, es.ref_el.sdim)]
       IN  ret' = IF es.cls = "TensorProductElement"
                  THEN TensorProductTabulate(es, order, points)
                  ELSE EnrichedTabulate(es, order, points)
    /\ UNCHANGED <<es, entered, stdout, workers, elems, log>>

ElementsInit ==
    /\ es = NoObj
    /\ call = CallOf("none", "", 0, 0, 0)
    /\ ret = Ok("NoneType", 0, <<>>, <<>>)
    /\ entered = {}
    /\ stdout = <<>>
    /\ workers = <<>>
    /\ elems = <<>>
    /\ log = <<>>

ElementsNext ==
    \/ \E A \in SubElements, B \in SubElements : NewTensorProductElement(A, B)
    \/ \E A \in SubElements, B \in SubElements : NewEnrichedElement(A, B)
    \/ \E shape \in {"TRIANGLE", "TETRAHEDRON"}, k \in 1..MaxBDFMDeg,
          nphik \in 0..MaxPhiK : NewBDFMDual(shape, k, nphik)
    \/ SpaceDimension
    \/ \E order \in Orders, npts \in NPoints : ElementTabulate(order, npts)

SpecElements == ElementsInit /\ [][ElementsNext]_vars

----------------------------------------------------------------------------
\* Properties.

OnLine == es.cls = "LineExpansionSet"
OnTriangle == es.cls = "TriangleExpansionSet"
OnTetrahedron == es.cls = "TetrahedronExpansionSet"

\* The multi-indices of degree at most n.
TriIndices(n) == { a \in (0..n) \X (0..n) : a[1] + a[2] <= n }
TetIndices(n) == { a \in (0..n) \X (0..n) \X (0..n) : a[1] + a[2] + a[3] <= n }

\* C1: after tabulate(n, pts) with n >= 0 and pts non-empty, on every shape,
\* the call returns and the number of rows of the array equals
\* polynomial_dimension(cell, n) and get_num_members(n).
C1_DimensionMatch ==
    (call.op = "tabulate" /\ call.n >= 0 /\ call.npts >= 1) =>
        /\ ret.status = "ok"
        /\ Len(ret.arr) = polynomial_dimension(es.ref_el, call.n).num
        /\ Len(ret.arr) = get_num_members(es.cls, call.n)
        /\ \A i \in DOMAIN ret.arr : Len(ret.arr[i]) = call.npts

C1_Witness ==
    /\ call.op = "tabulate" /\ call.n = 2 /\ call.npts = 2
    /\ OnTetrahedron /\ ret.status = "ok" /\ Len(ret.arr) = 10

\* C2: for the degree n >= 0 of a triangle tabulation, idx(p, q) =
\* (p+q)(p+q+1)/2 + q maps the multi-indices with p + q <= n one-to-one onto
\* 0..(n+1)(n+2)/2 - 1, a smaller total degree gives a smaller index, and at
\* n = 2 the six indices are idx(0,0)=0, idx(1,0)=1, idx(0,1)=2, idx(2,0)=3,
\* idx(1,1)=4, idx(0,2)=5.
C2_TriIdxBijection ==
    (call.op = "tabulate" /\ OnTriangle /\ call.n >= 0) =>
        LET n == call.n
            I == TriIndices(n)
            last == ((n + 1) * (n + 2)) \div 2 - 1
        IN  /\ \A a \in I : TriIdx(a[1], a[2]) \in 0..last
            /\ \A a, b \in I : TriIdx(a[1], a[2]) = TriIdx(b[1], b[2]) => a = b
            /\ \A k \in 0..last : \E a \in I : TriIdx(a[1], a[2]) = k
            /\ \A a, b \in I : a[1] + a[2] < b[1] + b[2]
                                  => TriIdx(a[1], a[2]) < TriIdx(b[1], b[2])
            /\ n = 2 => /\ TriIdx(0, 0) = 0 /\ TriIdx(1, 0) = 1 /\ TriIdx(0, 1) = 2
                        /\ TriIdx(2, 0) = 3 /\ TriIdx(1, 1) = 4 /\ TriIdx(0, 2) = 5

C2_Witness ==
    /\ call.op = "tabulate" /\ OnTriangle /\ call.n = 2 /\ call.npts = 1
    /\ ret.status = "ok" /\ Len(ret.arr) = 6
    /\ ret.arr[TriIdx(1, 1) + 1][1].v.at = <<1, 1>>

\* C3: for the degree n >= 0 of a tetrahedron tabulation, idx(p, q, r) maps
\* the multi-indices with p + q + r <= n one-to-one onto
\* 0..(n+1)(n+2)(n+3)/6 - 1, and a smaller total degree gives a smaller index.
C3_TetIdxBijection ==
    (call.op = "tabulate" /\ OnTetrahedron /\ call.n >= 0) =>
        LET n == call.n
            I == TetIndices(n)
            last == ((n + 1) * (n + 2) * (n + 3)) \div 6 - 1
        IN  /\ \A a \in I : TetIdx(a[1], a[2], a[3]) \in 0..last
            /\ \A a, b \in I : TetIdx(a[1], a[2], a[3]) = TetIdx(b[1], b[2], b[3])
                                  => a = b
            /\ \A k \in 0..last : \E a \in I : TetIdx(a[1], a[2], a[3]) = k
            /\ \A a, b \in I : a[1] + a[2] + a[3] < b[1] + b[2] + b[3]
                                  => TetIdx(a[1], a[2], a[3]) < TetIdx(b[1], b[2], b[3])

C3_Witness ==
    /\ call.op = "tabulate" /\ OnTetrahedron /\ call.n = 3 /\ call.npts = 1
    /\ ret.status = "ok" /\ Len(ret.arr) = 20
    /\ ret.arr[TetIdx(1, 1, 1) + 1][1].v.at = <<1, 1, 1>>

\* C4: polynomial_dimension(cell, degree) is degree+1 on the line,
\* (degree+1)(degree+2)/2 on the triangle and (degree+1)(degree+2)(degree+3)/6
\* on the tetrahedron for degree >= 0, and 0 for every negative degree.
C4_PolynomialDimension ==
    (call.op = "polynomial_dimension"
        /\ call.shape \in {"LINE", "TRIANGLE", "TETRAHEDRON"}) =>
        LET d == call.n
        IN  /\ ret.status = "ok"
            /\ ret.num = IF d < 0 THEN 0
                         ELSE IF call.shape = "LINE" THEN d + 1
                         ELSE IF call.shape = "TRIANGLE"
                         THEN ((d + 1) * (d + 2)) \div 2
                         ELSE ((d + 1) * (d + 2) * (d + 3)) \div 6

\* C5: for every shape and every n < 0, get_num_members(n) is 0 and
\* tabulate(n, pts) returns an empty result without raising.
C5_NegativeDegreeIsEmpty ==
    /\ (call.op = "get_num_members" /\ call.n < 0) =>
           (ret.status = "ok" /\ ret.num = 0)
    /\ (call.op = "tabulate" /\ call.n < 0) =>
           (ret.status = "ok" /\ ret.arr = <<>>)

\* C6: for every shape and every n >= 0, tabulate(n, []) returns an empty
\* structure without raising and enters neither the Jacobi evaluation nor
\* _tabulate.
C6_EmptyInput ==
    (call.op = "tabulate" /\ call.n >= 0 /\ call.npts = 0) =>
        /\ ret.status = "ok"
        /\ ret.arr = <<>>
        /\ entered = {}

C6_Witness ==
    /\ call.op = "tabulate" /\ call.n = 2 /\ call.npts = 0
    /\ OnTriangle /\ ret.status = "ok" /\ ret.ty = "ndarray"

\* The failure the dispatcher raises for a shape it does not know.
UnsupportedShapeError == RaiseMsg("Exception", "Unknown reference element type.")

\* C7: get_expansion_set(cell) returns a LineExpansionSet, a
\* TriangleExpansionSet or a TetrahedronExpansionSet exactly when the shape
\* is LINE, TRIANGLE or TETRAHEDRON, and for any other shape raises the
\* unknown-shape error and returns no expansion set.
C7_Dispatch ==
    call.op = "get_expansion_set" =>
        /\ (ret.status = "ok" /\ ret.obj.cls = "LineExpansionSet")
               <=> call.shape = "LINE"
        /\ (ret.status = "ok" /\ ret.obj.cls = "TriangleExpansionSet")
               <=> call.shape = "TRIANGLE"
        /\ (ret.status = "ok" /\ ret.obj.cls = "TetrahedronExpansionSet")
               <=> call.shape = "TETRAHEDRON"
        /\ call.shape \notin {"LINE", "TRIANGLE", "TETRAHEDRON"} =>
               (ret = UnsupportedShapeError /\ ret.obj = NoObj)
        /\ ret.status = "ok" => es = ret.obj

C7_Witness ==
    /\ call.op = "get_expansion_set" /\ call.shape = "TENSORPRODUCT"
    /\ ret.status = "raise" /\ OnTriangle

\* C8: every expansion set get_expansion_set returns provides tabulate,
\* tabulate_derivatives, tabulate_jet and get_num_members, so none of these
\* calls fails for lack of the method.
Interface == {"tabulate", "tabulate_derivatives", "tabulate_jet", "get_num_members"}
C8_InterfaceComplete ==
    (es # NoObj /\ call.op \in Interface) =>
        /\ call.op \in Methods(es.cls)
        /\ ~(ret.status = "raise" /\ ret.exc = "AttributeError")

\* C9: on the triangle and the tetrahedron, tabulate_jet(n, pts, order) with
\* n >= 0 and pts non-empty returns order + 1 arrays; array d holds the
\* derivatives of order d, with get_num_members(n) rows and len(pts) columns.
C9_JetShape ==
    (call.op = "tabulate_jet" /\ (OnTriangle \/ OnTetrahedron)
        /\ call.n >= 0 /\ call.npts >= 1) =>
        /\ ret.status = "ok"
        /\ Len(ret.jet) = call.order + 1
        /\ \A d \in 0..call.order :
              /\ Len(ret.jet[d + 1]) = get_num_members(es.cls, call.n)
              /\ \A i \in DOMAIN ret.jet[d + 1] :
                    /\ Len(ret.jet[d + 1][i]) = call.npts
                    /\ \A j \in DOMAIN ret.jet[d + 1][i] :
                          ret.jet[d + 1][i][j].order = d

C9_Witness ==
    /\ call.op = "tabulate_jet" /\ OnTetrahedron
    /\ call.n = 2 /\ call.npts = 2 /\ call.order = 1
    /\ ret.status = "ok" /\ Len(ret.jet) = 2 /\ Len(ret.jet[2]) = 10

\* C10: on the triangle and the tetrahedron, tabulate_derivatives(n, pts)
\* with n >= 0 and pts non-empty returns, for every basis function
\* i < get_num_members(n) and every point j < len(pts), a pair whose item 0 is
\* tabulate(n, pts)[i][j] and whose item 1 is a gradient with one component
\* per spatial dimension (2 on the triangle, 3 on the tetrahedron).
C10_ValueGradientPairs ==
    (call.op = "tabulate_derivatives" /\ (OnTriangle \/ OnTetrahedron)
        /\ call.n >= 0 /\ call.npts >= 1) =>
        LET tab == tabulate(es.cls, call.n, call.npts, "ok").ret
        IN  /\ ret.status = "ok"
            /\ Len(ret.arr) = get_num_members(es.cls, call.n)
            /\ \A i \in 1..get_num_members(es.cls, call.n) :
                  /\ Len(ret.arr[i]) = call.npts
                  /\ \A j \in 1..call.npts :
                        /\ Item(ret.arr[i][j], 0) = tab.arr[i][j]
                        /\ Len(Item(ret.arr[i][j], 1)) = IF OnTriangle THEN 2 ELSE 3

C10_Witness ==
    /\ call.op = "tabulate_derivatives" /\ OnTriangle
    /\ call.n = 2 /\ call.npts = 2
    /\ ret.status = "ok" /\ Len(ret.arr) = 6
    /\ Len(Item(ret.arr[6][2], 1)) = 2

\* C11: on the line, for n >= 0 and npoints >= 1, tabulate(n, pts) returns an
\* array of n + 1 rows and npoints columns, and tabulate_derivatives(n, pts)
\* returns a one-element sequence whose array has the same n + 1 rows and
\* npoints columns.
C11_LineShapes ==
    (OnLine /\ call.n >= 0 /\ call.npts >= 1) =>
        /\ call.op = "tabulate" =>
              /\ ret.status = "ok"
              /\ Len(ret.arr) = call.n + 1
              /\ \A i \in DOMAIN ret.arr : Len(ret.arr[i]) = call.npts
        /\ call.op = "tabulate_derivatives" =>
              /\ ret.status = "ok"
              /\ Len(ret.jet) = 1
              /\ Len(ret.jet[1]) = call.n + 1
              /\ \A i \in DOMAIN ret.jet[1] : Len(ret.jet[1][i]) = call.npts

\* The spec's InvalidOrderError: point_element.py has no class of that name;
\* the failure of its order test is Python's AssertionError.
InvalidOrderError == "AssertionError"

\* C12: PointElement.tabulate(order, points) with order != 0 fails with
\* InvalidOrderError and returns nothing; with order = 0 it returns a mapping
\* whose only key is the empty tuple and whose value is a 1 x len(points)
\* array of ones.
C12_PointTabulate ==
    (call.op = "PointElement.tabulate") =>
        /\ call.order # 0 =>
              /\ ret.status = "raise" /\ ret.exc = InvalidOrderError
              /\ ret.dict = {} /\ ret.arr = <<>>
        /\ call.order = 0 =>
              /\ ret.status = "ok" /\ ret.ty = "dict"
              /\ { it.key : it \in ret.dict } = { <<>> }
              /\ Cardinality(ret.dict) = 1
              /\ \A it \in ret.dict :
                    /\ Len(it.val) = 1
                    /\ Len(it.val[1]) = call.npts
                    /\ \A j \in 1..call.npts :
                          it.val[1][j].v = Ones /\ it.val[1][j].py = "float"

C12_Witness ==
    /\ call.op = "PointElement.tabulate" /\ call.order # 0
    /\ ret.status = "raise" /\ ret.exc = "AssertionError"

\* C14: no tabulation operation writes to standard output: whatever calls
\* have been made, nothing has been printed.
C14_NoOutput == Len(stdout) = 0

\* C15: the expansion set's A, b, ref_el and base_ref_el keep their
\* construction-time values after any sequence of get_num_members, tabulate,
\* tabulate_derivatives and tabulate_jet calls: the object held is always
\* equal, field by field, to a freshly constructed one for its cell.
C15_Frame ==
    (es # NoObj) =>
        LET fresh == get_expansion_set(es.ref_el).obj
        IN  /\ es.A = fresh.A
            /\ es.b = fresh.b
            /\ es.ref_el = fresh.ref_el
            /\ es.base_ref_el = fresh.base_ref_el
            /\ es.ref_el \in Cells

C15_Witness ==
    /\ call.op = "tabulate_jet" /\ OnTetrahedron /\ ret.status = "ok"
    /\ call.npts = 2
    /\ es.A = <<"A", "UFCTetrahedron", "DefaultTetrahedron">>
    /\ es.b = <<"b", "UFCTetrahedron", "DefaultTetrahedron">>

\* The number of normalization factors multiplied into the value v.
RECURSIVE NormCount(_)
NormCount(v) ==
    (IF v.op = "norm" THEN 1 ELSE 0)
    + (IF Len(v.args) >= 1 THEN NormCount(v.args[1]) ELSE 0)
    + (IF Len(v.args) >= 2 THEN NormCount(v.args[2]) ELSE 0)

\* C18: for every n >= 0, every entry returned by tabulate has been multiplied
\* exactly once by the normalization factor of its own multi-index,
\* sqrt((p+0.5)(p+q+1)) on the triangle and sqrt((p+0.5)(p+q+1)(p+q+r+1.5)) on
\* the tetrahedron: none is returned unnormalized, none normalized twice.
C18_NormalizedOnce ==
    (call.op = "tabulate" /\ call.n >= 0 /\ call.npts >= 1
        /\ (OnTriangle \/ OnTetrahedron)) =>
        /\ ret.status = "ok"
        /\ OnTriangle =>
              \A a \in TriIndices(call.n) : \A j \in 1..call.npts :
                 LET v == ret.arr[TriIdx(a[1], a[2]) + 1][j].v
                 IN  v.op = "norm" /\ v.at = a /\ NormCount(v) = 1
        /\ OnTetrahedron =>
              \A a \in TetIndices(call.n) : \A j \in 1..call.npts :
                 LET v == ret.arr[TetIdx(a[1], a[2], a[3]) + 1][j].v
                 IN  v.op = "norm" /\ v.at = a /\ NormCount(v) = 1

\* The sweeps of a _tabulate, given as its assignments in program order with
\* the normalization assignments last, fill a list of dim slots in order:
\* every subscript written or read lies in 0..dim-1, every slot is assigned
\* exactly once by the sweeps, all of them before the first normalization
\* assignment, every slot read on a right-hand side was assigned by an earlier
\* sweep assignment, and no slot is None when the sweeps are over.
SweepSteps(steps) == { k \in DOMAIN steps : steps[k].op # "norm" }
SweepsFillInOrder(steps, dim) ==
    LET sweep == SweepSteps(steps)
        filled == RunSteps([res |-> NoneList(dim), err |-> "ok"],
                           SubSeq(steps, 1, Cardinality(sweep)))
    IN  /\ \A k \in DOMAIN steps :
              /\ steps[k].tgt \in 0..(dim - 1)
              /\ \A r \in DOMAIN steps[k].reads :
                    /\ steps[k].reads[r] \in 0..(dim - 1)
                    /\ \E w \in sweep :
                          w < k /\ steps[w].tgt = steps[k].reads[r]
        /\ \A s \in 0..(dim - 1) :
              Cardinality({ k \in sweep : steps[k].tgt = s }) = 1
        /\ \A k \in sweep : \A m \in (DOMAIN steps) \ sweep : k < m
        /\ filled.err = "ok"
        /\ \A i \in DOMAIN filled.res : filled.res[i] # NoneV

\* C19: in the triangle _tabulate for n >= 1 the sweeps assign every slot
\* idx(p, q) with p + q <= n exactly once before normalization, every slot
\* read on a right-hand side was assigned earlier, every index used lies in
\* 0..(n+1)(n+2)/2 - 1, and no slot is None when normalization runs.
C19_TriSweepOrder ==
    (call.op = "tabulate" /\ OnTriangle /\ call.n >= 1 /\ call.npts >= 1) =>
        /\ SweepsFillInOrder(TriSteps(call.n),
                             ((call.n + 1) * (call.n + 2)) \div 2)
        /\ { TriSteps(call.n)[k].tgt : k \in SweepSteps(TriSteps(call.n)) }
              = { TriIdx(a[1], a[2]) : a \in TriIndices(call.n) }
        /\ ret.status = "ok"
        /\ \A i \in DOMAIN ret.arr : \A j \in 1..call.npts :
              ret.arr[i][j].v.op = "norm"

C19_Witness ==
    /\ call.op = "tabulate" /\ OnTriangle /\ call.n = 3 /\ call.npts = 1
    /\ ret.status = "ok" /\ Len(ret.arr) = 10
    /\ ret.arr[10][1].v.args[1].op = "qrec"

\* C20: in the tetrahedron _tabulate for n >= 1 the sweeps assign every slot
\* idx(p, q, r) with p + q + r <= n exactly once before normalization, every
\* slot read on a right-hand side was assigned earlier, every index used lies
\* in 0..(n+1)(n+2)(n+3)/6 - 1, and no slot is None when normalization runs.
C20_TetSweepOrder ==
    (call.op = "tabulate" /\ OnTetrahedron /\ call.n >= 1 /\ call.npts >= 1) =>
        /\ SweepsFillInOrder(TetSteps(call.n),
                             ((call.n + 1) * (call.n + 2) * (call.n + 3)) \div 6)
        /\ { TetSteps(call.n)[k].tgt : k \in SweepSteps(TetSteps(call.n)) }
              = { TetIdx(a[1], a[2], a[3]) : a \in TetIndices(call.n) }
        /\ ret.status = "ok"
        /\ \A i \in DOMAIN ret.arr : \A j \in 1..call.npts :
              ret.arr[i][j].v.op = "norm"

C20_Witness ==
    /\ call.op = "tabulate" /\ OnTetrahedron /\ call.n = 3 /\ call.npts = 1
    /\ ret.status = "ok" /\ Len(ret.arr) = 20
    /\ ret.arr[20][1].v.args[1].op = "rrec"

\* Exact fractions <<numerator, denominator>>.
\* The square of the normalization factor of a multi-index: k + 0.5 on the
\* line, (p+0.5)(p+q+1) on the triangle, (p+0.5)(p+q+1)(p+q+r+1.5) on the
\* tetrahedron.
NormFactorSq(shape, at) ==
    IF shape = "LINE" THEN << 2 * at[1] + 1, 2 >>
    ELSE IF shape = "TRIANGLE"
    THEN << (2 * at[1] + 1) * (at[1] + at[2] + 1), 2 >>
    ELSE << (2 * at[1] + 1) * (at[1] + at[2] + 1)
                * (2 * (at[1] + at[2] + at[3]) + 3), 4 >>

\* The measure of the canonical cell: the interval [-1, 1], the triangle
\* (-1,-1), (1,-1), (-1,1), the tetrahedron with the corresponding vertices.
CellMeasure(shape) ==
    IF shape = "LINE" THEN << 2, 1 >>
    ELSE IF shape = "TRIANGLE" THEN << 2, 1 >>
    ELSE << 4, 3 >>

\* Entry (0, 0) of the Gram matrix: basis function 0 is a constant (1.0, or
\* the Legendre polynomial P_0 = 1, times the factors multiplied into it), so
\* the integral of its square over the canonical cell is its square times the
\* cell's measure.
Gram00(v, shape) ==
    LET sq == IF v.op = "norm" THEN NormFactorSq(shape, v.at) ELSE << 1, 1 >>
        m == CellMeasure(shape)
    IN  << sq[1] * m[1], sq[2] * m[2] >>

\* C17: for every supported shape and degree the Gram matrix of the tabulated
\* basis over the reference cell is the identity; stated here for the entry
\* that can be computed exactly, the squared L2 norm of basis function 0,
\* which must be 1 after every tabulate(n, pts) with n >= 0.
C17_UnitNormOfFirstMember ==
    (call.op = "tabulate" /\ es # NoObj /\ call.n >= 0 /\ call.npts >= 1) =>
        /\ ret.status = "ok"
        /\ LET g == Gram00(ret.arr[1][1].v, es.ref_el.shape)
           IN  g[1] = g[2]

\* The caller's merge: the columns of a followed by the columns of b.
ColumnConcat(a, b) == [i \in DOMAIN a |-> a[i] \o b[i]]

\* C13: tabulate calls share no mutable state: when the two calls on the two
\* non-empty batches of a point list have returned, however their assignments
\* were interleaved, no call has raised, each column of each call's array is
\* the column a call on that point alone gives, and the columns of the two
\* arrays concatenated in batch order are the array of one tabulate call on
\* all the points.
C13_ShardedTabulate ==
    /\ \A w \in DOMAIN workers : workers[w].state # "raised"
    /\ (\A w \in DOMAIN workers : workers[w].state = "done") =>
          LET n == workers[1].n
              N == Len(workers[1].pts) + Len(workers[2].pts)
              whole == tabulate(es.cls, n, N, "ok").ret
          IN  /\ whole.status = "ok"
              /\ ColumnConcat(workers[1].out, workers[2].out) = whole.arr
              /\ \A w \in DOMAIN workers : \A j \in DOMAIN workers[w].pts :
                    \A i \in DOMAIN workers[w].out :
                       workers[w].out[i][j] = whole.arr[i][workers[w].pts[j]]

C13_Witness ==
    /\ \A w \in DOMAIN workers : workers[w].state = "done"
    /\ OnTetrahedron /\ workers[1].n = 2
    /\ Len(workers[1].pts) = 2 /\ Len(workers[2].pts) = 1
    /\ Len(workers[1].out) = 10 /\ Len(workers[2].out[10]) = 1

\* The attribute a facet-support function caches its map in.
CacheAttr(fn) == "_" \o fn

\* C16: the facet-support caches are populated on first use and never
\* invalidated: no map is computed twice for the same element; an element
\* holds a cached map exactly when that map has been computed for it, and the
\* map held is still the one of that computation; a call that returns gives
\* back the map stored on the element; horiz_facet_support_dofs leaves the
\* vert cache alone and the other way round.
C16_FacetCaches ==
    /\ \A i \in DOMAIN log : \A k \in DOMAIN log : log[i] = log[k] => i = k
    /\ \A e \in DOMAIN elems :
          /\ \A a \in elems[e].attrs :
                a.name \in { CacheAttr("horiz_facet_support_dofs"),
                             CacheAttr("vert_facet_support_dofs") }
          /\ \A fn \in {"horiz_facet_support_dofs", "vert_facet_support_dofs"} :
                /\ HasAttr(elems[e], CacheAttr(fn))
                      <=> \E i \in DOMAIN log : log[i] = [fn |-> fn, elem |-> e]
                /\ \A i \in DOMAIN log :
                      log[i] = [fn |-> fn, elem |-> e] =>
                          /\ GetAttr(elems[e], CacheAttr(fn)).serial = i
                          /\ GetAttr(elems[e], CacheAttr(fn)).elem = e
    /\ (call.op # "none" /\ ret.status = "ok") =>
          /\ HasAttr(elems[call.elem], CacheAttr(call.op))
          /\ ret.obj = GetAttr(elems[call.elem], CacheAttr(call.op))
    /\ (call.op # "none" /\ ret.status = "raise") =>
          /\ elems[call.elem].ref_el.cls # "TensorProductCell"
          /\ elems[call.elem].attrs = {}

\* horiz_facet_support_dofs(elems[1]) called again after both maps of
\* elems[1] were computed.
C16_Witness ==
    /\ call.op = "horiz_facet_support_dofs" /\ call.elem = 1
    /\ log = << [fn |-> "horiz_facet_support_dofs", elem |-> 1],
                [fn |-> "vert_facet_support_dofs", elem |-> 1] >>
    /\ ret.status = "ok" /\ ret.obj.serial = 1
    /\ GetAttr(elems[1], "_vert_facet_support_dofs").serial = 2

\* C21: the tabulated value of a basis function does not depend on the
\* requested degree: on the triangle and the tetrahedron, for every
\* 0 <= m <= n and non-empty point set, the first get_num_members(m) rows of
\* tabulate(n, pts) equal tabulate(m, pts) row for row.
C21_DegreeIndependentRows ==
    (call.op = "tabulate" /\ (OnTriangle \/ OnTetrahedron)
        /\ call.n >= 0 /\ call.npts >= 1) =>
        /\ ret.status = "ok"
        /\ \A m \in 0..call.n :
              LET lower == tabulate(es.cls, m, call.npts, "ok").ret
              IN  /\ lower.status = "ok"
                  /\ Len(lower.arr) = get_num_members(es.cls, m)
                  /\ \A i \in 1..get_num_members(es.cls, m) :
                        ret.arr[i] = lower.arr[i]

\* Equality of fractions with non-zero denominators, and of linear factors.
FracEq(u, v) == u[2] # 0 /\ v[2] # 0 /\ u[1] * v[2] = v[1] * u[2]
LinearEq(f, g) == FracEq(f.c, g.c) /\ FracEq(f.y, g.y) /\ FracEq(f.z, g.z)

\* C22: the q = 1 seeding is the q-direction recurrence taken at q = 0 with
\* result(p, -1) = 0: for every p the seed loop of a tabulate(n, pts) runs
\* over, with (a1, a2, a3) = jrc(2p+1, 0, 0), the triangle seed factor
\* 0.5*(1+2p+(3+2p)*y) equals a1*y + a2 and the tetrahedron seed factor
\* p*(1+y) + (2+3y+z)/2 equals a1*factor3 + a2*factor4.
C22_SeedIsRecurrenceAtZero ==
    (call.op = "tabulate" /\ (OnTriangle \/ OnTetrahedron)
        /\ call.n >= 1 /\ call.npts >= 1) =>
        \A k \in DOMAIN StepsOf(es.cls, call.n) :
           LET s == StepsOf(es.cls, call.n)[k]
               p == s.at[1]
               a == jrc(2 * p + 1, 0, 0)
           IN  s.op = "q1" =>
                  /\ OnTriangle =>
                        LinearEq(TriSeedFactor(p), TriRecurrenceFactor(a.an, a.bn))
                  /\ OnTetrahedron =>
                        LinearEq(TetSeedFactor(p), TetRecurrenceFactor(a.an, a.bn))

C22_Witness ==
    /\ call.op = "tabulate" /\ OnTetrahedron /\ call.n = 3 /\ call.npts = 1
    /\ ret.status = "ok"
    /\ \E k \in DOMAIN TetSteps(3) :
          TetSteps(3)[k].op = "q1" /\ TetSteps(3)[k].at = << 2 >>
    /\ LinearEq(TetSeedFactor(2), Linear(Frac(3, 1), Frac(7, 2), Frac(1, 2)))

\* C23: no division by zero occurs in the recurrence coefficients: for every
\* n >= 0, every call jrc(a, b, k) made by the triangle and the tetrahedron
\* _tabulate has b = 0, a >= 1 and k >= 1 (jrc is never called with k = 0),
\* and its three denominators 2(k+1)(k+1+a+b), 2(k+1)(2k+a+b)(k+1+a+b) and
\* (k+1)(k+1+a+b)(2k+a+b) are non-zero.
C23_NoZeroDenominator ==
    (call.op = "tabulate" /\ (OnTriangle \/ OnTetrahedron)
        /\ call.n >= 0 /\ call.npts >= 1) =>
        /\ ret.status = "ok"
        /\ \A i \in DOMAIN JrcCalls(StepsOf(es.cls, call.n)) :
              LET c == JrcCalls(StepsOf(es.cls, call.n))[i]
                  a == c[1]
                  b == c[2]
                  k == c[3]
              IN  /\ a >= 1 /\ b = 0 /\ k >= 1
                  /\ jrc(a, b, k).an[2] = 2 * (k + 1) * (k + 1 + a + b)
                  /\ jrc(a, b, k).bn[2] = 2 * (k + 1) * (2 * k + a + b) * (k + 1 + a + b)
                  /\ jrc(a, b, k).cn[2] = (k + 1) * (k + 1 + a + b) * (2 * k + a + b)
                  /\ jrc(a, b, k).an[2] # 0
                  /\ jrc(a, b, k).bn[2] # 0
                  /\ jrc(a, b, k).cn[2] # 0

C23_Witness ==
    /\ call.op = "tabulate" /\ OnTetrahedron /\ call.n = 3 /\ call.npts = 1
    /\ ret.status = "ok"
    /\ Len(JrcCalls(TetSteps(3))) = 7
    /\ \E i \in DOMAIN JrcCalls(TetSteps(3)) :
          JrcCalls(TetSteps(3))[i] = << 4, 0, 1 >>

\* The places (key, entity, position) of the lists of an entity-dof table,
\* and whether the lists partition 0..n-1: every entry lies in 0..n-1 and
\* every number of 0..n-1 is at exactly one place.
Places(ids) ==
    UNION { UNION { { << key, e, i >> : i \in DOMAIN ids[key][e] } :
                    e \in DOMAIN ids[key] } : key \in DOMAIN ids }
PartitionsDofs(ids, n) ==
    /\ \A o \in Places(ids) : ids[o[1]][o[2]][o[3]] \in 0..(n - 1)
    /\ \A v \in 0..(n - 1) :
          Cardinality({ o \in Places(ids) : ids[o[1]][o[2]][o[3]] = v }) = 1

\* C24: TensorProductElement numbers the product of A's dof x and B's dof y
\* as x*Bsdim + y with Bsdim = B.space_dimension(): A's and B's entity_dofs
\* partitioning 0..Asd-1 and 0..Bsd-1, the lists of entity_ids over all keys
\* (dimA, dimB) hold exactly the numbers x*Bsd + y of their two entities and
\* partition 0..Asd*Bsd-1, space_dimension is Asd*Bsd, and for two scalar
\* elements row x*Bsd + y of every array of tabulate holds, at every point,
\* the product of A's basis function x and B's basis function y.
C24_TensorProductNumbering ==
    (es.cls = "TensorProductElement") =>
        LET A == es.A
            B == es.B
            n == A.ref_el.sdim
            m == B.ref_el.sdim
        IN  /\ PartitionsDofs(A.entity_dofs, A.sd)
            /\ PartitionsDofs(B.entity_dofs, B.sd)
            /\ PartitionsDofs(es.entity_ids, A.sd * B.sd)
            /\ DOMAIN es.entity_ids = (DOMAIN A.entity_dofs) \X (DOMAIN B.entity_dofs)
            /\ \A key \in DOMAIN es.entity_ids :
                  \A e \in DOMAIN es.entity_ids[key] :
                     \E eA \in DOMAIN A.entity_dofs[key[1]] :
                     \E eB \in DOMAIN B.entity_dofs[key[2]] :
                        { es.entity_ids[key][e][i] : i \in DOMAIN es.entity_ids[key][e] }
                          = { A.entity_dofs[key[1]][eA][i] * B.sd
                                + B.entity_dofs[key[2]][eB][k] :
                              i \in DOMAIN A.entity_dofs[key[1]][eA],
                              k \in DOMAIN B.entity_dofs[key[2]][eB] }
            /\ TensorProductSpaceDimension(es) = A.sd * B.sd
            /\ call.op = "space_dimension" => ret.num = A.sd * B.sd
            /\ call.op = "tabulate" =>
                  /\ ret.status = "ok"
                  /\ { it.key : it \in ret.dict } = Alphas(n + m, call.order)
                  /\ \A it \in ret.dict : \A j \in 1..call.npts :
                        /\ Len(it.val) = A.sd * B.sd
                        /\ \A x \in 0..(A.sd - 1) : \A y \in 0..(B.sd - 1) :
                              LET v == it.val[x * B.sd + y + 1][j]
                              IN  /\ v.op = "mul"
                                  /\ v.args[1] =
                                       BasisValue(A.cls, x, SubSeq(it.key, 1, n),
                                                  Slice(Point(j, n + m), 0, n))
                                  /\ v.args[2] =
                                       BasisValue(B.cls, y, SubSeq(it.key, n + 1, n + m),
                                                  Slice(Point(j, n + m), n, n + m))

C24_Witness ==
    /\ es.cls = "TensorProductElement" /\ es.A.cls = "P1" /\ es.B.cls = "P2"
    /\ es.entity_ids[<< 0, 1 >>][1] = << 5 >>
    /\ call.op = "tabulate" /\ call.order = 1 /\ call.npts = 2
    /\ ret.status = "ok" /\ Cardinality(ret.dict) = 3
    /\ \A it \in ret.dict : it.val[6][2].args[1].fn = << "P1", 1 >>

\* C25: EnrichedElement concatenates the dofs of A and B with offset
\* A.space_dimension(): for every entity, entity_ids is A's dof list followed
\* by B's dofs each shifted by the offset; A's and B's entity_dofs
\* partitioning 0..Asd-1 and 0..Bsd-1, the result partitions 0..Asd+Bsd-1;
\* space_dimension is Asd + Bsd; and in tabulate, for every derivative index,
\* rows 0..Asd-1 are A's rows and rows Asd..Asd+Bsd-1 are B's rows.
C25_EnrichedConcatenation ==
    (es.cls = "EnrichedElement") =>
        LET A == es.A
            B == es.B
            points == [j \in 1..call.npts |-> Point(j, es.ref_el.sdim)]
            Atab == SubTabulate(A, call.order, points)
            Btab == SubTabulate(B, call.order, points)
        IN  /\ PartitionsDofs(A.entity_dofs, A.sd)
            /\ PartitionsDofs(B.entity_dofs, B.sd)
            /\ DOMAIN es.entity_ids = DOMAIN A.entity_dofs
            /\ \A d \in DOMAIN es.entity_ids :
                  /\ DOMAIN es.entity_ids[d] = DOMAIN A.entity_dofs[d]
                  /\ \A e \in DOMAIN es.entity_ids[d] :
                        LET l == es.entity_ids[d][e]
                            la == A.entity_dofs[d][e]
                            lb == B.entity_dofs[d][e]
                        IN  /\ Len(l) = Len(la) + Len(lb)
                            /\ \A i \in DOMAIN la : l[i] = la[i]
                            /\ \A i \in DOMAIN lb : l[Len(la) + i] = lb[i] + A.sd
            /\ PartitionsDofs(es.entity_ids, A.sd + B.sd)
            /\ EnrichedSpaceDimension(es) = A.sd + B.sd
            /\ call.op = "space_dimension" => ret.num = A.sd + B.sd
            /\ call.op = "tabulate" =>
                  /\ ret.status = "ok"
                  /\ { it.key : it \in ret.dict } = { it.key : it \in Atab }
                  /\ \A it \in ret.dict :
                        /\ Len(it.val) = A.sd + B.sd
                        /\ \A r \in 1..A.sd :
                              it.val[r] = DictGet(Atab, it.key)[r]
                        /\ \A r \in 1..B.sd :
                              it.val[A.sd + r] = DictGet(Btab, it.key)[r]

C25_Witness ==
    /\ es.cls = "EnrichedElement" /\ es.A.cls = "P1" /\ es.B.cls = "P2"
    /\ es.entity_ids[0][1] = << 1, 3 >> /\ es.entity_ids[1][0] = << 4 >>
    /\ call.op = "tabulate" /\ call.order = 1 /\ call.npts = 2
    /\ ret.status = "ok" /\ Cardinality(ret.dict) = 2
    /\ \A it \in ret.dict : it.val[5][2].fn = << "P2", 2 >>

\* C26: BDFMDual numbers its nodes consecutively facet by facet and then the
\* interior: entity_ids[d-1][j] is the list of the pts_per_bdry node numbers
\* j*pts_per_bdry .. (j+1)*pts_per_bdry - 1 of facet j, entity_ids[d] is the
\* following len(interior_moments) numbers, the entities of lower dimension
\* have empty lists, and together the lists cover every node 0..len(ls)-1
\* exactly once.
C26_BDFMDualNumbering ==
    (es.cls = "BDFMDual") =>
        LET d == es.d
            ppb == es.pts_per_bdry
            nfacets == Len(EntityRange(es.shape, d - 1))
            bdry == es.entity_ids[d - 1]
        IN  /\ DOMAIN bdry = 0..(nfacets - 1)
            /\ \A j \in DOMAIN bdry :
                  bdry[j] = PyList(PyRange(j * ppb, (j + 1) * ppb))
            /\ es.entity_ids[d]
                  = PyList(PyRange(nfacets * ppb, nfacets * ppb + es.ninterior))
            /\ \A i \in 0..(d - 2) : \A j \in DOMAIN es.entity_ids[i] :
                  es.entity_ids[i][j] = PyList(<<>>)
            /\ \A v \in 0..(es.nnodes - 1) :
                  Cardinality(
                     { j \in DOMAIN bdry :
                          \E i \in DOMAIN bdry[j].items : bdry[j].items[i] = v })
                  + Cardinality(
                     { i \in DOMAIN es.entity_ids[d].items :
                          es.entity_ids[d].items[i] = v }) = 1

====
